---- MODULE Spec2Model ----
(***************************************************************************)
(* Model of the unallocated-cost distribution run of                      *)
(* src/modules/unalloc_distribution.py (run_unalloc_distribution) and of  *)
(* the project-number classification of                                   *)
(* src/modules/project_vm_adjustment.py.                                  *)
(*                                                                         *)
(* Numbers.  pandas works on float64.  A float is modelled as a pair      *)
(* <<n, d>>: a finite value is the reduced fraction n/d with d > 0, and   *)
(* d = 0 encodes the non-finite results of a division: <<1,0>> is +inf,   *)
(* <<-1,0>> is -inf and <<0,0>> is NaN (also the blank cell of a numeric  *)
(* column).  Rounding of float64 is not modelled.                         *)
(***************************************************************************)
EXTENDS Integers, Sequences, FiniteSets, TLC

VARIABLES
    pc,              \* position of the run
    error,           \* the exception that ended the run, if any
    \* -- classification of one Project Number cell
    val,             \* the cell handed to _is_six_digit and to the bucket masks
    is6,             \* result of _is_six_digit(val)
    unalloc_bucket,  \* masks["Unalloc"] for the cell
    \* -- inputs of run_unalloc_distribution
    wb,              \* the workbook: its sheets as stored on disk
    window,          \* month_start (ms) and month_end (me)
    \* -- raw pulls
    df_unalloc_raw, df_current_raw, df_adjust_raw, df_unass_raw,
    df_main_raw, df_strag_raw,
    \* -- Step 1 and Step 2
    df_num,          \* combined numerator, summed by basin
    df_main,         \* Main-Combo + Stragglers with pad_days, Chem Cost
    df_den,          \* Basin, PropTotal, DayTotal, ChemTotal
    \* -- Step 3
    numer,       \* aligned numerator series: sand_u, hand_u, daily_u, chem_u
    denomr,      \* aligned denominator series: prop_total, day_total, chem_total
    ratio,       \* base ratios: ratio_sand, ratio_handle, ratio_daily, ratio_chem
    orphan,      \* orphan_sand, orphan_handle, orphan_daily, orphan_chem
    orph_r,      \* orph_r_sand, orph_r_handle, orph_r_daily, orph_r_chem
    final,       \* final_sand, final_handle, final_daily, final_chem
    \* -- Step 4
    df_out,          \* df_main with the four allocated columns
    \* -- write-back
    ws,              \* the new sheet Unalloc_Distribution while in memory
    \* -- a second call on the same file
    prev,            \* <<results of the first call>> once a second call began
    \* -- the monthly FX workflow (fx_operations.py, monthly_workflow.py)
    ref,             \* the reference workbook on disk: FX table, other sheets
    call,            \* <<arguments of the last update_fx_ref call>>
    wf               \* run_fx_and_comparison: position, new workbook, month

fvars == <<val, is6, unalloc_bucket>>
ivars == <<wb, window>>
rvars == <<df_unalloc_raw, df_current_raw, df_adjust_raw, df_unass_raw,
           df_main_raw, df_strag_raw>>
svars == <<df_num, df_main, df_den>>
evars == <<numer, denomr, ratio, orphan, orph_r, final>>
xvars == <<ref, call, wf>>
vars == <<pc, error, fvars, ivars, rvars, svars, evars, df_out, ws, prev,
          xvars>>

-----------------------------------------------------------------------------
(* Bounds of the model *)

\* largest amount of a numerator or denominator entry drawn by InitRatio
MaxAmt == 2
\* longest text of a Project Number cell drawn by InitFilter
MaxLen == 7

-----------------------------------------------------------------------------
(* float64 arithmetic on fractions *)

Abs(i) == IF i < 0 THEN -i ELSE i

RECURSIVE GCD(_, _)
GCD(a, b) == IF b = 0 THEN a ELSE GCD(b, a % b)

Sign(i) == IF i > 0 THEN 1 ELSE IF i < 0 THEN -1 ELSE 0

NaN == <<0, 0>>
Zero == <<0, 1>>

\* the float of an integer
Flt(i) == <<i, 1>>

IsFinite(x) == x[2] # 0
IsNaN(x) == x = NaN

\* n / d reduced; d = 0 gives +inf, -inf or NaN as float division does
Frac(n, d) ==
    IF d = 0 THEN <<Sign(n), 0>>
    ELSE LET g == GCD(Abs(n), Abs(d))
         IN  <<(Sign(d) * n) \div g, Abs(d) \div g>>

\* x / y on floats (numpy semantics: x/0 is +-inf, 0/0 is NaN, NaN propagates)
FDiv(x, y) ==
    IF IsNaN(x) \/ IsNaN(y) THEN NaN
    ELSE IF ~IsFinite(x) /\ ~IsFinite(y) THEN NaN
    ELSE IF ~IsFinite(x) THEN <<x[1] * (IF y[1] < 0 THEN -1 ELSE 1), 0>>
    ELSE IF ~IsFinite(y) THEN Zero
    ELSE Frac(x[1] * y[2], x[2] * y[1])

\* x + y on floats
FAdd(x, y) ==
    IF IsNaN(x) \/ IsNaN(y) THEN NaN
    ELSE IF ~IsFinite(x) /\ ~IsFinite(y) THEN (IF x = y THEN x ELSE NaN)
    ELSE IF ~IsFinite(x) THEN x
    ELSE IF ~IsFinite(y) THEN y
    ELSE Frac(x[1] * y[2] + y[1] * x[2], x[2] * y[2])

FNeg(x) == <<-x[1], x[2]>>
FSub(x, y) == FAdd(x, FNeg(y))

\* x * y on floats
FMul(x, y) ==
    IF IsNaN(x) \/ IsNaN(y) THEN NaN
    ELSE IF (~IsFinite(x) /\ y[1] = 0) \/ (~IsFinite(y) /\ x[1] = 0) THEN NaN
    ELSE IF ~IsFinite(x) \/ ~IsFinite(y) THEN <<Sign(x[1]) * Sign(y[1]), 0>>
    ELSE Frac(x[1] * y[1], x[2] * y[2])

\* comparisons with 0 (every comparison with NaN is False)
FGt0(x) == ~IsNaN(x) /\ x[1] > 0
FEq0(x) == IsFinite(x) /\ x[1] = 0

\* Series.sum() restricted to the index labels S (skipna: NaN counts as 0)
RECURSIVE FSum(_, _)
FSum(s, S) ==
    IF S = {} THEN Zero
    ELSE LET b == CHOOSE e \in S : TRUE
         IN  FAdd(IF IsNaN(s[b]) THEN Zero ELSE s[b], FSum(s, S \ {b}))

-----------------------------------------------------------------------------
(* Cells of a Project Number column and their classification *)

None == "none"
\* a result not computed yet; a computed result r is held as <<r>>
Unset == <<>>

\* A cell read by pandas from the sheet is blank (NaN), a number or a text.
\* A number is its integer part ip (what int() keeps) and whether a
\* fractional part follows; a text is its sequence of characters.
NanCell == [t |-> "nan"]
NumCell(ip, frac) == [t |-> "num", ip |-> ip, frac |-> frac]
StrCell(s) == [t |-> "str", s |-> s]

DigitChars == <<"0", "1", "2", "3", "4", "5", "6", "7", "8", "9">>
IsDigit(c) == \E i \in 1..10 : DigitChars[i] = c
DigitVal(c) == (CHOOSE i \in 1..10 : DigitChars[i] = c) - 1

\* the value of a sequence of decimal digits
RECURSIVE DecVal(_)
DecVal(s) ==
    IF s = <<>> THEN 0
    ELSE 10 * DecVal(SubSeq(s, 1, Len(s) - 1)) + DigitVal(s[Len(s)])

\* the decimal digits of n >= 0
RECURSIVE DecStr(_)
DecStr(n) ==
    IF n < 10 THEN <<DigitChars[n + 1]>>
    ELSE DecStr(n \div 10) \o <<DigitChars[(n % 10) + 1]>>

\* str.strip(): leading and trailing blanks removed
RECURSIVE Strip(_)
Strip(s) ==
    IF s = <<>> THEN s
    ELSE IF s[1] = " " THEN Strip(Tail(s))
    ELSE IF s[Len(s)] = " " THEN Strip(SubSeq(s, 1, Len(s) - 1))
    ELSE s

\* float(text): the decimal literals [digits][.][digits] with at least one
\* digit, blanks around them allowed; anything else raises ValueError.
\* (signs, exponents, "inf" and "nan" are outside the alphabet drawn here)
FloatParses(s) ==
    LET w    == Strip(s)
        dots == {i \in 1..Len(w) : w[i] = "."}
    IN  /\ \A i \in 1..Len(w) : IsDigit(w[i]) \/ w[i] = "."
        /\ Cardinality(dots) <= 1
        /\ \E i \in 1..Len(w) : IsDigit(w[i])

\* int(float(text)): the digits before the decimal point
IntOfFloat(s) ==
    LET w    == Strip(s)
        dots == {i \in 1..Len(w) : w[i] = "."}
        upto == IF dots = {} THEN Len(w) ELSE (CHOOSE i \in dots : TRUE) - 1
    IN  DecVal(SubSeq(w, 1, upto))

SixDigitLow  == 100000
SixDigitHigh == 999999

\* _is_six_digit(val) of _read_pvm_adjustments
_is_six_digit(cell) ==
    IF cell.t = "nan" THEN FALSE
    ELSE IF cell.t = "num"
         THEN SixDigitLow <= cell.ip /\ cell.ip <= SixDigitHigh
    ELSE IF ~FloatParses(cell.s) THEN FALSE
    ELSE LET n == IntOfFloat(cell.s)
         IN  SixDigitLow <= n /\ n <= SixDigitHigh

\* f"{int(x):06}": the digits of int(x), zero-padded to a width of 6
RECURSIVE ZeroPad(_, _)
ZeroPad(s, width) == IF Len(s) >= width THEN s ELSE ZeroPad(<<"0">> \o s, width)

PadWidth == 6

\* proj of generate_project_vm_adj: numbers formatted, the rest str(x).strip()
\* (str(nan) is "nan")
proj(cell) ==
    IF cell.t = "num" THEN ZeroPad(DecStr(cell.ip), PadWidth)
    ELSE IF cell.t = "nan" THEN <<"n", "a", "n">>
    ELSE Strip(cell.s)

\* str.match(r"^\d{6}$")
MatchSixDigits(s) == Len(s) = PadWidth /\ \A i \in 1..Len(s) : IsDigit(s[i])

\* masks["Unalloc"] = ~proj.str.match(r"^\d{6}$")
mask_Unalloc(cell) == ~MatchSixDigits(proj(cell))

\* df["Project Number"].apply(_is_six_digit) on the cell
ApplyIsSixDigit ==
    /\ pc = "classify"
    /\ is6 = Unset
    /\ is6' = <<_is_six_digit(val)>>
    /\ UNCHANGED <<pc, error, val, unalloc_bucket, ivars, rvars, svars, evars, df_out, ws, prev, xvars>>

\* the "Unalloc" mask of generate_project_vm_adj on the cell
ApplyUnallocMask ==
    /\ pc = "classify"
    /\ unalloc_bucket = Unset
    /\ unalloc_bucket' = <<mask_Unalloc(val)>>
    /\ UNCHANGED <<pc, error, val, is6, ivars, rvars, svars, evars, df_out, ws, prev, xvars>>

-----------------------------------------------------------------------------
(* Cells, rows and DataFrames *)

\* Every cell is a record tagged by t: NanCell is the blank cell (NaN, NaT),
\* Num(x) a numeric cell holding the float x, Lbl(s) a text cell (a basin
\* label), Ts(k) a timestamp; Project Number cells are NumCell / StrCell.
Num(x) == [t |-> "num", v |-> x]
Lbl(s) == [t |-> "str", s |-> s]
IsNA(c) == c.t = "nan"

\* the float of a numeric cell, NaN for a blank one
ValOf(c) == IF c.t = "num" THEN c.v ELSE NaN

\* A DataFrame is its set of column headers and its sequence of rows, each
\* row a function from the headers to cells.
DF(cols, rows) == [cols |-> cols, rows |-> rows]
EmptyDF == DF({}, <<>>)

\* df.dropna(how="all"): rows whose cells are all blank are removed
dropna_all(df) ==
    DF(df.cols, SelectSeq(df.rows, LAMBDA r : \E c \in df.cols : ~IsNA(r[c])))

\* df.dropna(how="all", subset=[col])
dropna_subset(df, col) ==
    DF(df.cols, SelectSeq(df.rows, LAMBDA r : ~IsNA(r[col])))

\* df.loc[:, keep] / df.drop(columns=...)
keep_columns(df, keep) ==
    DF(keep, [i \in 1..Len(df.rows) |-> [c \in keep |-> df.rows[i][c]]])

\* df.rename(columns=F)
rename(df, F(_)) ==
    LET nc == {F(c) : c \in df.cols}
    IN  DF(nc, [i \in 1..Len(df.rows) |->
                   [h \in nc |-> df.rows[i][CHOOSE c \in df.cols : F(c) = h]]])

\* df.reindex(columns=cols): missing columns come as NaN
reindex_columns(df, cols) ==
    DF(cols, [i \in 1..Len(df.rows) |->
                 [c \in cols |-> IF c \in df.cols THEN df.rows[i][c]
                                 ELSE NanCell]])

\* the cell Series.ffill() leaves at position i of column col
FilledCell(rows, col, i) ==
    LET named == {j \in 1..i : ~IsNA(rows[j][col])}
    IN  IF named = {} THEN NanCell
        ELSE rows[CHOOSE j \in named : \A k \in named : k <= j][col]

\* df[col] = df[col].ffill()
ffill(df, col) ==
    DF(df.cols, [i \in 1..Len(df.rows) |->
                    [df.rows[i] EXCEPT ![col] = FilledCell(df.rows, col, i)]])

\* pd.concat(dfs, ignore_index=True, sort=False) of a sequence of frames
RECURSIVE concat(_)
concat(dfs) ==
    IF dfs = <<>> THEN EmptyDF
    ELSE LET rest == concat(Tail(dfs))
             cols == dfs[1].cols \cup rest.cols
         IN  DF(cols, reindex_columns(dfs[1], cols).rows
                      \o reindex_columns(rest, cols).rows)

-----------------------------------------------------------------------------
(* Column headers *)

BasinHeaders == {"ENG BASIN R1", "LBRT BASIN"}

\* the canonical cost columns
CostCols == {"Prop Cost", "Truck Cost", "Chem Cost", "Fuel Cost",
             "Mat Cost", "Other Pad Cost", "Alloc VM Cost"}

\* the cost headers of the detail sheets (VM_COL_IDX of
\* generate_project_vm_adj) and of the Adjustments grid (MANUAL_COLUMNS)
DetailCostHeaders == {"Prop Cost", "Truck Cost", "Chemical and Gel cost",
                      "Fuel Cost", "Mat and Containment Costs",
                      "Other Pad Costs", "Allocation VM"}
GridCostHeaders == {"PROP COST", "TRUCK COST", "CHEM COST", "FUEL COST",
                    "MAT COST", "OTHER PAD COST", "ALLOC VM COST"}

\* headers matching r"rev|revenue" (case-insensitive)
RevenueHeaders == {"Prop Rev", "PROP REV", "REVENUE"}

\* _DROP of _read_pvm_adjustments (headers compared stripped, upper-cased)
_DROP == {"VARIABLE COST", "MISC COST", "COMMENT"}

\* RENAME_MAP
RENAME_MAP(h) ==
    CASE h = "ENG BASIN R1"              -> "LBRT BASIN"
      [] h = "Chemical and Gel cost"     -> "Chem Cost"
      [] h = "Mat and Containment Costs" -> "Mat Cost"
      [] h = "Other Pad Costs"           -> "Other Pad Cost"
      [] h = "Allocation VM"             -> "Alloc VM Cost"
      [] h = "Chemical cost"             -> "Chem Cost"
      [] OTHER                           -> h

\* _COL_MAP.get(c.strip().upper(), c)
_COL_MAP(h) ==
    CASE h \in {"PROP COST", "Prop Cost"}           -> "Prop Cost"
      [] h \in {"TRUCK COST", "Truck Cost"}         -> "Truck Cost"
      [] h \in {"CHEM COST", "Chem Cost"}           -> "Chem Cost"
      [] h \in {"FUEL COST", "Fuel Cost"}           -> "Fuel Cost"
      [] h \in {"MAT COST", "Mat Cost"}             -> "Mat Cost"
      [] h \in {"OTHER PAD COST", "Other Pad Cost"} -> "Other Pad Cost"
      [] h \in {"ALLOC VM COST", "Alloc VM Cost"}   -> "Alloc VM Cost"
      [] OTHER                                      -> h

\* _standardise_cost_columns (the _CANON_MAP prefixes PAD NO, PAD START,
\* PAD END, MONTH_YEAR_START do not occur among the cost-sheet headers)
_standardise_cost_columns(df) == rename(df, _COL_MAP)

-----------------------------------------------------------------------------
(* The sheet readers *)

\* _read_pvm_body: rows below the header, Grand Total and blank row dropped,
\* empty rows dropped, revenue columns dropped, RENAME_MAP applied, basin
\* forward-filled when the column is called LBRT BASIN after the rename
_read_pvm_body(sheet) ==
    LET body    == DF(sheet.cols, SubSeq(sheet.rows, 3, Len(sheet.rows)))
        nonrev  == keep_columns(dropna_all(body), sheet.cols \ RevenueHeaders)
        renamed == rename(nonrev, RENAME_MAP)
    IN  IF "LBRT BASIN" \in renamed.cols
        THEN ffill(renamed, "LBRT BASIN")
        ELSE renamed

\* the Project Number filter of _read_pvm_adjustments
drop_six_digit_rows(df) ==
    IF "Project Number" \in df.cols
    THEN DF(df.cols,
            SelectSeq(df.rows, LAMBDA r : ~_is_six_digit(r["Project Number"])))
    ELSE df

\* the fill loop of _read_pvm_adjustments: for col in ("LBRT BASIN",
\* "Period Name"): if col in df.columns: df[col] = df[col].ffill()
fill_adjustments(df) ==
    LET b == IF "LBRT BASIN" \in df.cols THEN ffill(df, "LBRT BASIN") ELSE df
    IN  IF "Period Name" \in b.cols THEN ffill(b, "Period Name") ELSE b

\* _read_pvm_adjustments: rows below the grid header (Excel row 18), empty
\* rows dropped, revenue and _DROP columns dropped, six-digit projects
\* removed, then LBRT BASIN forward-filled when a column has that header
_read_pvm_adjustments(sheet) ==
    LET nonrev == keep_columns(dropna_all(sheet),
                               (sheet.cols \ RevenueHeaders) \ _DROP)
    IN  fill_adjustments(drop_six_digit_rows(nonrev))

\* mutant: the basin of the activity records is forward-filled
_read_main_combo_ffill(database) ==
    ffill(dropna_subset(database.main, "Pad No"), "LBRT BASIN")

\* _read_main_combo: rows of the main block without a Pad No are dropped
_read_main_combo(database) == dropna_subset(database.main, "Pad No")

\* _read_stragglers: the second header block by position, rows without a
\* Pad No dropped, numeric placeholders set to 0 (Avg. Client Provided,
\* Prop TN, Chem Cost, ...), reindexed to the Main-Combo columns; an absent
\* block gives an empty frame
_read_stragglers(database, main_combo_cols) ==
    IF database.strag.rows = <<>> THEN EmptyDF
    ELSE LET kept == dropna_subset(database.strag, "Pad No")
             zero == DF(kept.cols \cup {"Avg. Client Provided", "Prop TN"},
                        [i \in 1..Len(kept.rows) |->
                           [c \in kept.cols \cup {"Avg. Client Provided",
                                                  "Prop TN"} |->
                              IF c \in {"Avg. Client Provided", "Prop TN"}
                              THEN Num(Zero) ELSE kept.rows[i][c]]])
         IN  reindex_columns(zero, main_combo_cols)

-----------------------------------------------------------------------------
(* Raw pulls *)

\* lines 297-307: the four P. VM sheets, Main-Combo and the stragglers
\* the sheet names of the workbooks drawn, and the keywords (lower-case
\* substrings) each name contains
SheetNames == {"P. VM - Unalloc", "P. VM - Current", "P. VM - Adjustments",
               "P. VM - Unass", "Database"}

SheetKeywords(name) ==
    CASE name = "P. VM - Unalloc"      -> {"p. vm", "unalloc"}
      [] name = "P. VM - Current"      -> {"p. vm", "current"}
      [] name = "P. VM - Adjustments"  -> {"p. vm", "adjust"}
      [] name = "P. VM - Unass"        -> {"p. vm", "unass"}
      [] name = "Unalloc_Distribution" -> {"unalloc"}
      [] OTHER                         -> {}

\* wb.sheetnames lists the sheets in workbook order; create_sheet (line 533)
\* puts a new sheet after all others
SheetOrder ==
    <<"P. VM - Unalloc", "P. VM - Current", "P. VM - Adjustments",
      "P. VM - Unass", "Database", "Unalloc_Distribution">>

\* mutant: the last sheet whose name contains the keywords other than 'p. vm'
_find_sheet_name_last_loose(sheetnames, keywords) ==
    LET hits == {i \in 1..Len(SheetOrder) :
                    /\ SheetOrder[i] \in sheetnames
                    /\ (keywords \ {"p. vm"}) \subseteq SheetKeywords(SheetOrder[i])}
    IN  IF hits = {} THEN <<>>
        ELSE <<SheetOrder[CHOOSE i \in hits : \A j \in hits : j <= i]>>

\* _find_sheet_name: <<name>> of the first sheet whose name contains all
\* keywords, <<>> when it raises KeyError
_find_sheet_name(sheetnames, keywords) ==
    LET hits == {i \in 1..Len(SheetOrder) :
                    /\ SheetOrder[i] \in sheetnames
                    /\ keywords \subseteq SheetKeywords(SheetOrder[i])}
    IN  IF hits = {} THEN <<>>
        ELSE <<SheetOrder[CHOOSE i \in hits : \A j \in hits : i <= j]>>

\* pd.read_excel(workbook_path, sheet_name=name): the cells of that sheet; of
\* Unalloc_Distribution, which no lookup of the run returns, only the header
\* row pandas would make of its first row (the first title) is kept
SheetByName(w, name) ==
    CASE name = "P. VM - Unalloc"      -> w.unalloc
      [] name = "P. VM - Current"      -> w.current
      [] name = "P. VM - Adjustments"  -> w.adjust
      [] name = "P. VM - Unass"        -> w.unass
      [] name = "Unalloc_Distribution" -> DF({"RAW - P. VM Unalloc"}, <<>>)

\* the four lookups of lines 297-300, in their order
SheetLookups == <<{"p. vm", "unalloc"}, {"p. vm", "current"},
                  {"p. vm", "adjust"}, {"p. vm", "unass"}>>

\* mutant: the error does not say which keywords were looked for
NoSheetError_unnamed(keywords) == "KeyError"

\* the message of the KeyError raised by _find_sheet_name
NoSheetError(keywords) ==
    CASE keywords = {"p. vm", "unalloc"} ->
            "KeyError: No sheet name contains keywords: ['p. vm', 'unalloc']"
      [] keywords = {"p. vm", "current"} ->
            "KeyError: No sheet name contains keywords: ['p. vm', 'current']"
      [] keywords = {"p. vm", "adjust"} ->
            "KeyError: No sheet name contains keywords: ['p. vm', 'adjust']"
      [] keywords = {"p. vm", "unass"} ->
            "KeyError: No sheet name contains keywords: ['p. vm', 'unass']"

\* the sheet the i-th lookup names
Found(i) ==
    SheetByName(wb, _find_sheet_name(wb.sheetnames, SheetLookups[i])[1])

ReadRaw ==
    /\ pc = "start"
    /\ LET missing == {i \in 1..Len(SheetLookups) :
                          _find_sheet_name(wb.sheetnames, SheetLookups[i]) = <<>>}
       IN  IF missing # {}
           THEN /\ pc' = "failed"
                /\ error' = NoSheetError(
                       SheetLookups[CHOOSE i \in missing :
                                       \A j \in missing : i <= j])
                /\ UNCHANGED rvars
           ELSE /\ df_unalloc_raw' = _read_pvm_body(Found(1))
                /\ df_current_raw' = _read_pvm_body(Found(2))
                /\ df_adjust_raw'  = _read_pvm_adjustments(Found(3))
                /\ df_unass_raw'   = _read_pvm_body(Found(4))
                /\ df_main_raw'    = _read_main_combo(wb.database)
                /\ df_strag_raw'   = _read_stragglers(wb.database,
                                         _read_main_combo(wb.database).cols)
                /\ pc' = "read"
                /\ UNCHANGED error
    /\ UNCHANGED <<fvars, ivars, svars, evars, df_out, ws, prev, xvars>>

-----------------------------------------------------------------------------
(* Step 1: the combined numerator *)

\* the distinct cells of a column
KeysOf(df, key) == {df.rows[i][key] : i \in 1..Len(df.rows)}

\* sum of column col over the rows whose key cell is k; NaN cells are
\* skipped; with fewer than min_count values the sum is NaN
RECURSIVE SumRows(_, _, _)
SumRows(rows, col, idx) ==
    IF idx = {} THEN Zero
    ELSE LET i == CHOOSE e \in idx : TRUE
         IN  FAdd(ValOf(rows[i][col]), SumRows(rows, col, idx \ {i}))

group_sum(df, key, k, col, min_count) ==
    LET idx == {i \in 1..Len(df.rows) :
                   df.rows[i][key] = k /\ ~IsNA(df.rows[i][col])}
    IN  IF Cardinality(idx) < min_count THEN NaN
        ELSE SumRows(df.rows, col, idx)

\* select_dtypes(include="number"): the columns holding only numbers and
\* blanks (the grouping key is a text column)
numeric_cols(df, key) ==
    {c \in df.cols \ {key} :
        \A i \in 1..Len(df.rows) : df.rows[i][c].t \in {"num", "nan"}}

\* the frames _step1_build_combined loops over: (df_unalloc, df_adjust,
\* df_unass)
step1_sources(df_unalloc, df_adjust, df_unass) ==
    <<df_unalloc, df_adjust, df_unass>>

\* the rename of the loop: ENG BASIN R1 -> LBRT BASIN
EngToLbrt(h) == IF h = "ENG BASIN R1" THEN "LBRT BASIN" ELSE h

\* _step1_build_combined: headers aligned, frames concatenated, Project
\* Number dropped, numeric columns summed by LBRT BASIN (blank key kept).
\* The result maps each basin cell to its row of sums.
_step1_build_combined(df_unalloc, df_adjust, df_unass) ==
    LET srcs     == step1_sources(df_unalloc, df_adjust, df_unass)
        dfs      == [i \in 1..Len(srcs) |->
                        _standardise_cost_columns(rename(srcs[i], EngToLbrt))]
        all      == concat(dfs)
        combined == keep_columns(all, all.cols \ {"Project Number"})
        ncols    == numeric_cols(combined, "LBRT BASIN")
    IN  [k \in KeysOf(combined, "LBRT BASIN") |->
            [c \in ncols |-> group_sum(combined, "LBRT BASIN", k, c, 1)]]

Step1 ==
    /\ pc = "read"
    /\ df_num' = _step1_build_combined(df_unalloc_raw, df_adjust_raw,
                                       df_unass_raw)
    /\ pc' = "step1"
    /\ UNCHANGED <<error, fvars, ivars, rvars, df_main, df_den, evars, df_out, ws, prev, xvars>>

-----------------------------------------------------------------------------
(* Step 2: the denominator metrics *)

\* Timestamps count ticks; a day has DayTicks of them and the tick is the
\* resolution of the clock (the code's second: 86_400 to the day).
DayTicks == 4
Ts(k) == [t |-> "ts", v |-> k]

\* _coerce_excel_datetime: timestamps kept, blanks and unparseable text NaT
_coerce_excel_datetime(c) == IF c.t = "ts" THEN c ELSE NanCell

\* mutant: the dates are coerced and no record is given the window bounds
with_dates_no_fallback(r, ms, me) ==
    [r EXCEPT !["Pad Start"] = _coerce_excel_datetime(r["Pad Start"]),
              !["Pad End"]   = _coerce_excel_datetime(r["Pad End"])]

\* lines 369-374: both dates coerced, and a record without both dates is
\* given the window bounds
with_dates(r, ms, me) ==
    LET st == _coerce_excel_datetime(r["Pad Start"])
        en == _coerce_excel_datetime(r["Pad End"])
    IN  IF IsNA(st) /\ IsNA(en)
        THEN [r EXCEPT !["Pad Start"] = Ts(ms), !["Pad End"] = Ts(me)]
        ELSE [r EXCEPT !["Pad Start"] = st, !["Pad End"] = en]

Max(a, b) == IF a >= b THEN a ELSE b
Min(a, b) == IF a <= b THEN a ELSE b

\* lines 380-384: the overlap of [Pad Start, Pad End] with the window, whose
\* last instant is me + 1 day - 1 tick; NaT on either side gives 0
pad_days(r, ms, me) ==
    IF IsNA(r["Pad Start"]) \/ IsNA(r["Pad End"]) THEN Zero
    ELSE LET start_clip == Max(r["Pad Start"].v, ms)
             end_clip   == Min(r["Pad End"].v, me + DayTicks - 1)
             tdelta     == Max(end_clip - start_clip, 0)
         IN  Frac(tdelta, DayTicks)

\* whether the text of a parsed decimal literal has a non-zero fraction
FracNonZero(s) ==
    LET w    == Strip(s)
        dots == {i \in 1..Len(w) : w[i] = "."}
    IN  \E d \in dots : \E i \in (d + 1)..Len(w) : w[i] # "0"

\* pd.to_numeric(cell, errors="coerce"): the number of the cell as
\* [ip, frac], or NaN
to_numeric(c) ==
    IF c.t = "num" /\ "ip" \in DOMAIN c THEN c
    ELSE IF c.t = "str" /\ FloatParses(c.s)
         THEN NumCell(IntOfFloat(c.s), FracNonZero(c.s))
    ELSE NanCell

\* .astype("Int64") raises on a column holding a non-integer value
int64_raises(df, col) ==
    \E i \in 1..Len(df.rows) :
        LET n == to_numeric(df.rows[i][col]) IN n.t = "num" /\ n.frac

\* mutant: the key is left as it is in the cell
Int64_uncoerced(c) == c

\* pd.to_numeric(...).astype("Int64") of one cell (no error): the integer
\* or <NA>
Int64(c) ==
    LET n == to_numeric(c)
    IN  IF n.t = "num" THEN NumCell(n.ip, FALSE) ELSE NanCell

\* chem_by_pad[pad]: Chem Cost of the Current rows of that project number
\* (unparseable costs count 0); NaN when no row has the number
chem_by_pad(df_current, pad) ==
    LET idx == {i \in 1..Len(df_current.rows) :
                   Int64(df_current.rows[i]["Project Number"]) = pad}
        cost(i) == IF df_current.rows[i]["Chem Cost"].t = "num"
                   THEN df_current.rows[i]["Chem Cost"].v ELSE Zero
        costs == [i \in idx |-> cost(i)]
    IN  IF IsNA(pad) \/ idx = {} THEN NaN ELSE FSum(costs, idx)

\* the columns Step 2 adds to df_main
Step2Cols == {"pad_days", "Pad_Days_Calc", "Chem Cost", "PropXClient"}

\* fillna(0) of a numeric cell
fillna0(c) == IF c.t = "num" /\ ~IsNaN(c.v) THEN c.v ELSE Zero

\* mutant: the tonnage alone
PropXClient_tonnage_only(r) == fillna0(r["Prop TN"])

\* lines 429-432: Prop TN x Avg. Client Provided, blanks as 0
PropXClient(r) ==
    FMul(fillna0(r["Prop TN"]), fillna0(r["Avg. Client Provided"]))

\* lines 357-432 on one record of Main-Combo + Stragglers
step2_row(r0, cols, df_current, ms, me) ==
    LET r    == with_dates(r0, ms, me)
        days == pad_days(r, ms, me)
        chem == chem_by_pad(df_current, Int64(r["Pad No"]))
    IN  [c \in cols \cup Step2Cols |->
            CASE c = "pad_days"      -> Num(days)
              [] c = "Pad_Days_Calc" -> Num(days)
              [] c = "Chem Cost"     -> Num(IF IsNaN(chem) THEN Zero ELSE chem)
              [] c = "PropXClient"   -> Num(PropXClient(r))
              [] c = "Pad No"        -> Int64(r[c])
              [] OTHER               -> r[c]]

\* the text labels (blank dropped) of a column: the groups of groupby(col)
GroupLabels(df, col) ==
    {df.rows[i][col].s : i \in {j \in 1..Len(df.rows) : ~IsNA(df.rows[j][col])}}

\* basins = df_den["Basin"].unique()
basins_of(den, num) == DOMAIN den

Step2 ==
    /\ pc = "step1"
    /\ LET both == concat(<<df_main_raw, df_strag_raw>>)
           ms   == window.ms
           me   == window.me
       IN  IF \/ ~({"Project Number", "Chem Cost"} \subseteq df_current_raw.cols)
              \/ ~({"Pad No", "Pad Start", "Pad End", "LBRT BASIN", "Prop TN"}
                     \subseteq both.cols)
           THEN /\ pc' = "failed"
                /\ error' = "KeyError"
                /\ UNCHANGED <<df_main, df_den>>
           ELSE IF \/ int64_raises(df_current_raw, "Project Number")
                   \/ int64_raises(both, "Pad No")
           THEN /\ pc' = "failed"
                /\ error' = "TypeError: cannot safely cast to Int64"
                /\ UNCHANGED <<df_main, df_den>>
           ELSE IF "Avg. Client Provided" \notin both.cols
           THEN /\ pc' = "failed"
                /\ error' = "KeyError: Column 'Avg. Client Provided' is missing"
                /\ UNCHANGED <<df_main, df_den>>
           ELSE LET main == DF(both.cols \cup Step2Cols,
                               [i \in 1..Len(both.rows) |->
                                   step2_row(both.rows[i], both.cols,
                                             df_current_raw, ms, me)])
                IN  /\ df_main' = main
                    /\ df_den' =
                         [b \in GroupLabels(main, "LBRT BASIN") |->
                            [PropTotal |-> group_sum(main, "LBRT BASIN", Lbl(b),
                                                     "PropXClient", 0),
                             DayTotal  |-> group_sum(main, "LBRT BASIN", Lbl(b),
                                                     "pad_days", 0),
                             ChemTotal |-> group_sum(main, "LBRT BASIN", Lbl(b),
                                                     "Chem Cost", 0)]]
                    /\ pc' = "step2"
                    /\ UNCHANGED error
    /\ UNCHANGED <<fvars, ivars, rvars, df_num, evars, df_out, ws, prev, xvars>>

-----------------------------------------------------------------------------
(* Step 3: numerators by basin, aligned to the basin index *)

\* grp_u[col].sum(): the column of df_num by basin label, a NaN sum as 0,
\* the blank key dropped
num_by_basin(num, cols) ==
    [b \in {k.s : k \in {c \in DOMAIN num : ~IsNA(c)}} |->
        LET row == num[Lbl(b)]
            vals == [c \in cols |-> IF IsNaN(row[c]) THEN Zero ELSE row[c]]
        IN  FSum(vals, cols)]

\* _al(s) = s.reindex(basins, fill_value=0)
_al(s, basins) == [b \in basins |-> IF b \in DOMAIN s THEN s[b] ELSE Zero]

\* mutant: Prop Cost is also counted among the daily columns
DailyCols_with_prop == {"Prop Cost", "Fuel Cost", "Mat Cost", "Other Pad Cost",
                        "Alloc VM Cost"}

DailyCols == {"Fuel Cost", "Mat Cost", "Other Pad Cost", "Alloc VM Cost"}

Align ==
    /\ pc = "step2"
    /\ IF ~(CostCols \subseteq UNION {DOMAIN df_num[k] : k \in DOMAIN df_num})
       THEN /\ pc' = "failed"
            /\ error' = "KeyError"
            /\ UNCHANGED <<numer, denomr>>
       ELSE LET basins == basins_of(df_den, df_num)
            IN  /\ numer' =
                     [sand_u  |-> _al(num_by_basin(df_num, {"Prop Cost"}), basins),
                      hand_u  |-> _al(num_by_basin(df_num, {"Truck Cost"}), basins),
                      daily_u |-> _al(num_by_basin(df_num, DailyCols), basins),
                      chem_u  |-> _al(num_by_basin(df_num, {"Chem Cost"}), basins)]
                /\ denomr' =
                     [prop_total |-> _al([b \in DOMAIN df_den |-> df_den[b].PropTotal],
                                         basins),
                      day_total  |-> _al([b \in DOMAIN df_den |-> df_den[b].DayTotal],
                                         basins),
                      chem_total |-> _al([b \in DOMAIN df_den |-> df_den[b].ChemTotal],
                                         basins)]
                /\ pc' = "aligned"
                /\ UNCHANGED error
    /\ UNCHANGED <<fvars, ivars, rvars, svars, ratio, orphan, orph_r, final,
                   df_out, ws, prev, xvars>>

-----------------------------------------------------------------------------
(* Step 3: the ratio engine *)

\* the basin that never receives sprinkled orphan cost
ExcludedBasin == "CA"

\* mutant: fillna(0) without the inf-as-NA option, +inf and -inf stay
fillna0_nan_only(x) == IF IsNaN(x) THEN Zero ELSE x

\* Series.fillna(0) under mode.use_inf_as_na: NaN, +inf and -inf become 0
fillna0_inf_as_na(x) == IF IsFinite(x) THEN x ELSE Zero

\* mutant: a zero denominator replaced by 1 before dividing
_ratio_zero_as_one(unalloc, denom) ==
    [b \in DOMAIN unalloc |->
        fillna0_inf_as_na(FDiv(unalloc[b],
                               IF FEq0(denom[b]) THEN Flt(1) ELSE denom[b]))]

\* _ratio(unalloc, denom): element-wise division, NaN and inf replaced by 0
_ratio(unalloc, denom) ==
    [b \in DOMAIN unalloc |-> fillna0_inf_as_na(FDiv(unalloc[b], denom[b]))]

\* mutant: every non-zero cost on a zero denominator counts as orphan
zero_mask_nonzero(unalloc, denom) ==
    {b \in DOMAIN unalloc : FEq0(denom[b]) /\ ~FEq0(unalloc[b])}

\* zero_mask = (denom == 0) & (unalloc > 0)
zero_mask(unalloc, denom) ==
    {b \in DOMAIN unalloc : FEq0(denom[b]) /\ FGt0(unalloc[b])}

\* mutant: the excluded basin is not left out
valid_mask_all_active(denom, base_ratio) ==
    {b \in DOMAIN base_ratio : FGt0(denom[b])}

\* valid_mask = (denom > 0) & (base_ratio.index != "CA")
valid_mask(denom, base_ratio) ==
    {b \in DOMAIN base_ratio : FGt0(denom[b]) /\ b # ExcludedBasin}

\* mutant: the orphan cost is split evenly per valid basin (each basin's
\* share divided by its own denominator) instead of one flat rate
_sprinkle_per_basin(unalloc, denom, base_ratio) ==
    LET orphan_cost  == FSum(unalloc, zero_mask(unalloc, denom))
        valid        == valid_mask(denom, base_ratio)
        pool         == FSum(denom, valid)
        orphan_ratio == IF ~FEq0(pool) THEN FDiv(orphan_cost, pool) ELSE Zero
    IN  [orphan_cost  |-> orphan_cost,
         orphan_ratio |-> orphan_ratio,
         final        |-> [b \in DOMAIN base_ratio |->
                              IF b \in valid
                              THEN FAdd(base_ratio[b],
                                        FDiv(orphan_cost,
                                             FMul(Flt(Cardinality(valid)),
                                                  denom[b])))
                              ELSE base_ratio[b]]]

\* mutant: the orphan cost is computed but added to no basin
_sprinkle_drop_orphans(unalloc, denom, base_ratio) ==
    LET orphan_cost  == FSum(unalloc, zero_mask(unalloc, denom))
        valid        == valid_mask(denom, base_ratio)
        pool         == FSum(denom, valid)
        orphan_ratio == IF ~FEq0(pool) THEN FDiv(orphan_cost, pool) ELSE Zero
    IN  [orphan_cost  |-> orphan_cost,
         orphan_ratio |-> orphan_ratio,
         final        |-> base_ratio]

\* _sprinkle(unalloc, denom, base_ratio) -> (orphan_cost, orphan_ratio, final)
_sprinkle(unalloc, denom, base_ratio) ==
    LET orphan_cost  == FSum(unalloc, zero_mask(unalloc, denom))
        valid        == valid_mask(denom, base_ratio)
        pool         == FSum(denom, valid)
        orphan_ratio == IF ~FEq0(pool) THEN FDiv(orphan_cost, pool) ELSE Zero
    IN  [orphan_cost  |-> orphan_cost,
         orphan_ratio |-> orphan_ratio,
         final        |-> [b \in DOMAIN base_ratio |->
                              IF b \in valid
                              THEN FAdd(base_ratio[b], orphan_ratio)
                              ELSE base_ratio[b]]]

\* the four categories and the numerator and denominator each one divides
Metrics == {"Sand", "Handle", "Daily", "Chem"}

NumOf(m) == CASE m = "Sand"   -> "sand_u"
              [] m = "Handle" -> "hand_u"
              [] m = "Daily"  -> "daily_u"
              [] m = "Chem"   -> "chem_u"

DenOf(m) == CASE m = "Sand"   -> "prop_total"
              [] m = "Handle" -> "prop_total"
              [] m = "Daily"  -> "day_total"
              [] m = "Chem"   -> "chem_total"

\* ratio_sand .. ratio_chem = _ratio(...)
ComputeBaseRatios ==
    /\ pc = "aligned"
    /\ ratio' = [m \in Metrics |-> _ratio(numer[NumOf(m)], denomr[DenOf(m)])]
    /\ pc' = "ratios"
    /\ UNCHANGED <<error, fvars, ivars, rvars, svars, numer, denomr, orphan, orph_r,
                   final, df_out, ws, prev, xvars>>

\* orphan_x, orph_r_x, final_x = _sprinkle(...)
Sprinkle ==
    /\ pc = "ratios"
    /\ LET r == [m \in Metrics |->
                   _sprinkle(numer[NumOf(m)], denomr[DenOf(m)], ratio[m])]
       IN  /\ orphan' = [m \in Metrics |-> r[m].orphan_cost]
           /\ orph_r' = [m \in Metrics |-> r[m].orphan_ratio]
           /\ final'  = [m \in Metrics |-> r[m].final]
    /\ pc' = "sprinkled"
    /\ UNCHANGED <<error, fvars, ivars, rvars, svars, numer, denomr, ratio, df_out, ws, prev, xvars>>

-----------------------------------------------------------------------------
(* Step 4: pad-level allocation *)

\* Series.map(final_x): the ratio of the record's basin, NaN when the basin
\* is blank or not in the index
map_ratio(c, series) ==
    IF c.t = "str" /\ c.s \in DOMAIN series THEN series[c.s] ELSE NaN

AllocCols == {"Unalloc_Sand", "Unalloc_Handle", "Unalloc_Chem", "Unalloc_Daily"}

\* mutant: every column is driven by Prop TN and the sand ratio
step4_row_sand_only(r, cols) ==
    [c \in cols \cup AllocCols |->
        IF c \in AllocCols
        THEN Num(FMul(ValOf(r["Prop TN"]),
                      map_ratio(r["LBRT BASIN"], final["Sand"])))
        ELSE r[c]]

\* lines 522-526 on one record
step4_row(r, cols) ==
    [c \in cols \cup AllocCols |->
        CASE c = "Unalloc_Sand"   ->
                Num(FMul(ValOf(r["Prop TN"]),
                         map_ratio(r["LBRT BASIN"], final["Sand"])))
          [] c = "Unalloc_Handle" ->
                Num(FMul(ValOf(r["Prop TN"]),
                         map_ratio(r["LBRT BASIN"], final["Handle"])))
          [] c = "Unalloc_Chem"   ->
                Num(FMul(ValOf(r["Chem Cost"]),
                         map_ratio(r["LBRT BASIN"], final["Chem"])))
          [] c = "Unalloc_Daily"  ->
                Num(FMul(ValOf(r["pad_days"]),
                         map_ratio(r["LBRT BASIN"], final["Daily"])))
          [] OTHER                -> r[c]]

Step4 ==
    /\ pc = "sprinkled"
    /\ df_out' = DF(df_main.cols \cup AllocCols,
                    [i \in 1..Len(df_main.rows) |->
                        step4_row(df_main.rows[i], df_main.cols)])
    /\ pc' = "allocated"
    /\ UNCHANGED <<error, fvars, ivars, rvars, svars, evars, ws, prev, xvars>>

\* lines 563-574: the twelve tables in the order they are handed to
\* _write_section, each with its title and its number of data rows
Sections ==
    <<[title |-> "RAW - P. VM Unalloc", df |-> df_unalloc_raw,
       n |-> Len(df_unalloc_raw.rows)],
      [title |-> "RAW - P. VM Adjustments", df |-> df_adjust_raw,
       n |-> Len(df_adjust_raw.rows)],
      [title |-> "RAW - P. VM Unass", df |-> df_unass_raw,
       n |-> Len(df_unass_raw.rows)],
      [title |-> "RAW - P. VM Current", df |-> df_current_raw,
       n |-> Len(df_current_raw.rows)],
      [title |-> "RAW - Main_Combo", df |-> df_main,
       n |-> Len(df_main.rows)],
      [title |-> "RAW - Stragglers", df |-> df_strag_raw,
       n |-> Len(df_strag_raw.rows)],
      [title |-> "STEP 1 - Numerator Combined", df |-> df_num,
       n |-> Cardinality(DOMAIN df_num)],
      [title |-> "STEP 2 - Denominator Metrics", df |-> df_den,
       n |-> Cardinality(DOMAIN df_den)],
      [title |-> "STEP 3-a - Orphan Costs", df |-> orphan,
       n |-> Cardinality(Metrics)],
      [title |-> "STEP 3-b - Orphan Ratios", df |-> orph_r,
       n |-> Cardinality(Metrics)],
      [title |-> "STEP 3-c - Final Basin Ratios", df |-> final,
       n |-> Cardinality(DOMAIN df_den)],
      [title |-> "STEP 4 - Pad-level Allocations", df |-> df_out,
       n |-> Len(df_out.rows)]>>

\* mutant: the next title is put on the last row written
_write_section_no_gap(title, n, start_row) == start_row + 2 + n

\* _write_section (lines 535-561) returns the next free row: the title is on
\* start_row, the header two rows below, the n data rows follow, and one
\* blank row is left after the table (r_idx + 2)
_write_section(title, n, start_row) == (start_row + 2 + n) + 2

\* the rows one call of _write_section fills
Placed(sec, start_row) ==
    [title |-> sec.title, df |-> sec.df, first |-> start_row,
     header |-> start_row + 2, last |-> start_row + 2 + sec.n]

\* row = 1; row = _write_section(...) twelve times (lines 562-574)
RECURSIVE write_sections(_, _)
write_sections(secs, row) ==
    IF secs = <<>> THEN <<>>
    ELSE <<Placed(secs[1], row)>>
         \o write_sections(Tail(secs),
                           _write_section(secs[1].title, secs[1].n, row))

\* ws.cell(r, c, value) raises ValueError on pd.NA, the blank of the Int64
\* column Pad No of df_main and df_out
HoldsNA(df) == \E i \in 1..Len(df.rows) : IsNA(df.rows[i]["Pad No"])

\* lines 530-574: the sheet is created in the open workbook and filled
Write ==
    /\ pc = "allocated"
    /\ IF HoldsNA(df_main)
       THEN /\ pc' = "failed"
            /\ error' = "ValueError: Cannot convert <NA> to Excel"
            /\ UNCHANGED ws
       ELSE /\ ws' = write_sections(Sections, 1)
            /\ pc' = "written"
            /\ UNCHANGED error
    /\ UNCHANGED <<fvars, ivars, rvars, svars, evars, df_out, prev, xvars>>

\* line 576: the open workbook, loaded with data_only=True (line 291), is
\* written over the file: the new sheet takes the place of any sheet of its
\* name, and every cell that held a formula now holds the value it had cached
Save ==
    /\ pc = "written"
    /\ wb' = [wb EXCEPT !.sheetnames = @ \cup {"Unalloc_Distribution"},
                        !.distribution = <<ws>>,
                        !.formulas = {}]
    /\ pc' = "saved"
    /\ UNCHANGED <<error, fvars, window, rvars, svars, evars, df_out, ws, prev, xvars>>

-----------------------------------------------------------------------------
(* The ratio engine on its own: aligned series drawn from bounded sets *)

BasinNames == {"CA", "PM", "RK"}
Amounts == {Flt(i) : i \in (-1)..MaxAmt}

ZeroSeries(idx) == [b \in idx |-> Zero]

NoFilter == val = None /\ is6 = Unset /\ unalloc_bucket = Unset
NoRun ==
    /\ error = None /\ wb = None /\ window = None
    /\ df_unalloc_raw = None /\ df_current_raw = None /\ df_adjust_raw = None
    /\ df_unass_raw = None /\ df_main_raw = None /\ df_strag_raw = None
    /\ df_num = None /\ df_main = None /\ df_den = None /\ df_out = None
    /\ ws = <<>> /\ prev = <<>>
    /\ ref = None /\ call = <<>> /\ wf = None
NoEngine ==
    /\ numer = None /\ denomr = None /\ ratio = None
    /\ orphan = None /\ orph_r = None /\ final = None

InitRatio ==
    /\ pc = "aligned"
    /\ NoFilter /\ NoRun
    /\ \E idx \in SUBSET BasinNames, m \in Metrics :
       \E u \in [idx -> Amounts], d \in [idx -> Amounts] :
          /\ numer  = [k \in {"sand_u", "hand_u", "daily_u", "chem_u"} |->
                          IF k = NumOf(m) THEN u ELSE ZeroSeries(idx)]
          /\ denomr = [k \in {"prop_total", "day_total", "chem_total"} |->
                          IF k = DenOf(m) THEN d ELSE ZeroSeries(idx)]
    /\ ratio = None /\ orphan = None /\ orph_r = None /\ final = None

NextRatio == ComputeBaseRatios \/ Sprinkle

SpecRatio == InitRatio /\ [][NextRatio]_vars

-----------------------------------------------------------------------------
(* The classification of one cell on its own *)

Alphabet == {"0", "1", ".", "A"}

\* the texts of at most n characters
RECURSIVE Texts(_)
Texts(n) ==
    IF n = 0 THEN {<<>>}
    ELSE LET shorter == Texts(n - 1)
         IN  shorter \cup {Append(s, c) : s \in shorter, c \in Alphabet}

ProjectCells ==
    {NanCell}
    \cup {StrCell(s) : s \in Texts(MaxLen)}
    \cup {NumCell(DecVal(s), f) :
             s \in {x \in Texts(MaxLen) : \A i \in 1..Len(x) : IsDigit(x[i])},
             f \in BOOLEAN}

InitFilter ==
    /\ pc = "classify"
    /\ val \in ProjectCells
    /\ is6 = Unset /\ unalloc_bucket = Unset
    /\ NoEngine /\ NoRun

NextFilter == ApplyIsSixDigit \/ ApplyUnallocMask

SpecFilter == InitFilter /\ [][NextFilter]_vars

-----------------------------------------------------------------------------
(* The whole run on a workbook drawn from bounded sets *)

\* the sheets as generate_project_vm_adj lays them out: a detail sheet has
\* its header in row 1, the Grand Total in row 2, a blank row 3 and the data
\* from row 4; the Adjustments grid has its header in row 18
DetailCols(h) ==
    {"Project Number", h, "Period Name", "Prop Rev"} \cup DetailCostHeaders
GridCols(h) ==
    {"Project Number", h, "Period Name", "REVENUE", "PROP REV",
     "VARIABLE COST", "MISC COST", "COMMENT"} \cup GridCostHeaders

\* a data row with amount a in cost column c and 0 in the other amounts
CostRow(cols, h, p, b, c, a) ==
    [x \in cols |->
        CASE x = "Project Number" -> p
          [] x = h                -> b
          [] x = "Period Name"    -> Lbl("Jan-25")
          [] x = "COMMENT"        -> NanCell
          [] x = c                -> Num(Flt(a))
          [] OTHER                -> Num(Zero)]

GrandTotalText == <<"G", "r", "a", "n", "d", " ", "T", "o", "t", "a", "l">>

GrandTotalRow(cols, data) ==
    [x \in cols |->
        CASE x = "Project Number" -> StrCell(GrandTotalText)
          [] x \in DetailCostHeaders \cup {"Prop Rev"} ->
                Num(SumRows(data, x, 1..Len(data)))
          [] OTHER -> NanCell]

DetailSheet(h, data) ==
    DF(DetailCols(h),
       <<GrandTotalRow(DetailCols(h), data),
         [x \in DetailCols(h) |-> NanCell]>> \o data)

\* the sequences of at most n elements of S
RECURSIVE SeqsUpTo(_, _)
SeqsUpTo(S, n) ==
    IF n = 0 THEN {<<>>}
    ELSE LET shorter == SeqsUpTo(S, n - 1)
         IN  shorter \cup {Append(q, e) : q \in shorter, e \in S}

\* bounds on the rows drawn
MaxRows == 1
MaxFillRows == 3
MaxRecs == 2

InputBasins == {"PM", "pm", "CA"}
BasinCells == {NanCell} \cup {Lbl(b) : b \in InputBasins}

SixDigitProject == NumCell(100000, FALSE)
\* a block that follows the merged-cell convention opens with a named row
OpensNamed(rows, h) == IF rows = <<>> THEN TRUE ELSE ~IsNA(rows[1][h])

MainCols == {"Pad No", "Pad Start", "Pad End", "LBRT BASIN", "Prop TN",
             "Avg. Client Provided"}
StragCols == {"Pad No", "Pad Start", "Pad End", "LBRT BASIN"}

\* the report window: two days, days 1 and 2 of the clock
WindowStart == DayTicks
WindowEnd == 2 * DayTicks

\* a Main-Combo record active over the whole window
MainRow(pad, b, tn) ==
    [x \in MainCols |->
        CASE x = "Pad No"     -> pad
          [] x = "Pad Start"  -> Ts(0)
          [] x = "Pad End"    -> Ts(4 * DayTicks)
          [] x = "LBRT BASIN" -> b
          [] x = "Prop TN"    -> Num(Flt(tn))
          [] OTHER            -> Num(Flt(1))]

StragRow(pad, b) ==
    [x \in StragCols |->
        CASE x = "Pad No"     -> pad
          [] x = "Pad Start"  -> Ts(WindowStart)
          [] x = "Pad End"    -> Ts(WindowStart + DayTicks)
          [] x = "LBRT BASIN" -> b]

\* the Current sheet: one project with chemical cost
CurrentSheet ==
    DetailSheet("ENG BASIN R1",
                <<CostRow(DetailCols("ENG BASIN R1"), "ENG BASIN R1",
                          SixDigitProject, Lbl("PM"),
                          "Chemical and Gel cost", 2)>>)

Untouched ==
    /\ error = None
    /\ df_unalloc_raw = None /\ df_current_raw = None /\ df_adjust_raw = None
    /\ df_unass_raw = None /\ df_main_raw = None /\ df_strag_raw = None
    /\ df_num = None /\ df_main = None /\ df_den = None /\ df_out = None
    /\ ws = <<>> /\ prev = <<>>
    /\ ref = None /\ call = <<>> /\ wf = None

\* the activity tables every run below draws from
Activity(m, st) == [main |-> DF(MainCols, m), strag |-> DF(StragCols, st)]

Init ==
    /\ pc = "start"
    /\ NoFilter /\ NoEngine /\ Untouched
    /\ window = [ms |-> WindowStart, me |-> WindowEnd]
    /\ \E hu \in {"ENG BASIN R1"}, ha \in {"LBRT BASIN"} :
       \E u  \in SeqsUpTo({CostRow(DetailCols(hu), hu, NanCell, b, c, 1) :
                             b \in BasinCells,
                             c \in {"Prop Cost", "Fuel Cost"}}, MaxRows),
          a  \in SeqsUpTo({CostRow(GridCols(ha), ha, p, b, "PROP COST", 1) :
                             p \in {StrCell(<<"A">>), SixDigitProject},
                             b \in BasinCells}, MaxRows),
          s  \in SeqsUpTo({CostRow(DetailCols(hu), hu, SixDigitProject,
                                   Lbl("PM"), "Prop Cost", 2)}, MaxRows),
          m  \in SeqsUpTo({MainRow(SixDigitProject, Lbl(b), tn) :
                             b \in InputBasins, tn \in 0..1}, MaxRecs),
          st \in SeqsUpTo({StragRow(NumCell(100001, FALSE), Lbl("CA"))}, 1) :
          /\ OpensNamed(u, hu)
          /\ m # <<>>
          /\ wb = [unalloc  |-> DetailSheet(hu, u),
                   current  |-> CurrentSheet,
                   adjust   |-> DF(GridCols(ha), a),
                   unass    |-> DetailSheet(hu, s),
                   database |-> Activity(m, st),
                   sheetnames |-> SheetNames, distribution |-> <<>>,
                formulas |-> {}]

Next ==
    \/ ReadRaw
    \/ Step1
    \/ Step2
    \/ Align
    \/ ComputeBaseRatios
    \/ Sprinkle
    \/ Step4
    \/ Write
    \/ Save

Spec == Init /\ [][Next]_vars

\* The run on workbooks with longer cost blocks: the Adjustments grid under
\* either basin header, with six-digit and other projects, named and blank
\* basin cells; one activity record
InitFill ==
    /\ pc = "start"
    /\ NoFilter /\ NoEngine /\ Untouched
    /\ window = [ms |-> WindowStart, me |-> WindowEnd]
    /\ \E hu \in {"ENG BASIN R1"}, ha \in BasinHeaders :
       \E u \in SeqsUpTo({CostRow(DetailCols(hu), hu, NanCell, b, "Prop Cost", 1) :
                            b \in {NanCell, Lbl("PM"), Lbl("CA")}}, MaxFillRows - 1),
          a \in SeqsUpTo({CostRow(GridCols(ha), ha, p, b, "PROP COST", 1) :
                            p \in {StrCell(<<"A">>), SixDigitProject},
                            b \in {NanCell, Lbl("PM"), Lbl("CA")}}, MaxFillRows) :
          /\ OpensNamed(u, hu)
          /\ OpensNamed(a, ha)
          /\ wb = [unalloc  |-> DetailSheet(hu, u),
                   current  |-> CurrentSheet,
                   adjust   |-> DF(GridCols(ha), a),
                   unass    |-> DetailSheet(hu, <<>>),
                   database |-> Activity(<<MainRow(SixDigitProject, Lbl("PM"), 1)>>,
                                         <<>>),
                   sheetnames |-> SheetNames, distribution |-> <<>>,
                formulas |-> {}]

SpecFill == InitFill /\ [][Next]_vars

-----------------------------------------------------------------------------
(* Properties of the ratio engine (Step 3) *)

\* the numerator and the denominator series of metric m
U(m) == numer[NumOf(m)]
D(m) == denomr[DenOf(m)]

\* the basins of metric m that take part in the redistribution
ValidBasins(m) == {b \in DOMAIN D(m) : D(m)[b][1] > 0 /\ b # "CA"}
\* the basins of metric m with cost and no activity
Orphans(m) == {b \in DOMAIN D(m) : D(m)[b] = Zero /\ U(m)[b][1] > 0}

\* C1: for every category and basin, final_ratio = base_ratio + orphan_ratio
\* when the basin is valid (denominator > 0 and not 'CA'), and base_ratio
\* otherwise; the amount added is the same scalar for every valid basin.
C1_FlatRateSprinkle ==
    pc = "sprinkled" =>
        \A m \in Metrics :
            /\ \A b \in DOMAIN final[m] :
                  final[m][b] = IF b \in ValidBasins(m)
                                THEN FAdd(ratio[m][b], orph_r[m])
                                ELSE ratio[m][b]
            /\ \A b1, b2 \in ValidBasins(m) :
                  FSub(final[m][b1], ratio[m][b1]) =
                  FSub(final[m][b2], ratio[m][b2])

\* two valid basins of different size receive a non-zero orphan ratio
C1_Witness ==
    /\ pc = "sprinkled"
    /\ \E m \in Metrics :
          /\ orph_r[m] # Zero
          /\ \E b1, b2 \in ValidBasins(m) : D(m)[b1] # D(m)[b2]
          /\ final[m]["PM"] = FAdd(ratio[m]["PM"], orph_r[m])

\* C2: 'CA' never receives orphan cost: final_ratio['CA'] = base_ratio['CA']
\* whatever its denominator, and its denominator is not part of the sum
\* dividing the orphan pool.
C2_ExcludedBasinKeepsBase ==
    pc = "sprinkled" =>
        \A m \in Metrics :
            LET others == {b \in DOMAIN D(m) \ {"CA"} : D(m)[b][1] > 0}
                pool   == FSum(D(m), others)
            IN  /\ "CA" \in DOMAIN final[m] => final[m]["CA"] = ratio[m]["CA"]
                /\ pool # Zero => orph_r[m] = FDiv(orphan[m], pool)

\* the example: PM denom 0 numerator 2, RK denom 1, CA denom 1 (excluded)
\* gives orphan_ratio 2/1, final[RK] = base[RK] + 2, final[CA] = base[CA]
C2_Witness ==
    /\ pc = "sprinkled"
    /\ \E m \in Metrics :
          /\ DOMAIN D(m) = {"CA", "PM", "RK"}
          /\ D(m)["PM"] = Zero /\ U(m)["PM"] = Flt(2)
          /\ D(m)["RK"] = Flt(1) /\ D(m)["CA"] = Flt(1)
          /\ U(m)["CA"] = Flt(1)
          /\ orph_r[m] = Flt(2)
          /\ final[m]["RK"] = FAdd(ratio[m]["RK"], Flt(2))
          /\ final[m]["CA"] = Flt(1)

\* C3: the orphans are exactly the basins with denominator 0 and numerator
\* > 0; orphan_pool is the sum of their numerators; orphan_ratio is
\* orphan_pool / (sum of the valid basins' denominators), 0 when that sum is
\* 0; without orphans orphan_ratio is 0 and every final ratio is its base.
C3_OrphanPoolAndRatio ==
    pc = "sprinkled" =>
        \A m \in Metrics :
            LET pool == FSum(D(m), ValidBasins(m))
            IN  /\ orphan[m] = FSum(U(m), Orphans(m))
                /\ orph_r[m] = IF pool # Zero
                               THEN FDiv(FSum(U(m), Orphans(m)), pool)
                               ELSE Zero
                /\ Orphans(m) = {} => /\ orph_r[m] = Zero
                                      /\ final[m] = ratio[m]

\* two orphans (one of them with a negative-cost neighbour) pooled over one
\* valid basin
C3_Witness ==
    /\ pc = "sprinkled"
    /\ \E m \in Metrics :
          /\ Cardinality(Orphans(m)) = 2
          /\ orphan[m] = Flt(3)
          /\ orph_r[m] = Frac(3, 2)

\* C5: base_ratio = numerator / denominator when the denominator is not 0 and
\* 0 when it is 0 (0/0 included); no base or final ratio is NaN or infinite.
C5_BaseRatioGuarded ==
    /\ pc \in {"ratios", "sprinkled"} =>
          \A m \in Metrics : \A b \in DOMAIN ratio[m] :
              /\ ratio[m][b] = IF D(m)[b] # Zero
                               THEN Frac(U(m)[b][1] * D(m)[b][2],
                                         U(m)[b][2] * D(m)[b][1])
                               ELSE Zero
              /\ IsFinite(ratio[m][b])
    /\ pc = "sprinkled" =>
          \A m \in Metrics : \A b \in DOMAIN final[m] : IsFinite(final[m][b])

\* one category holds a 0/0 basin, a cost/0 basin and a negative denominator
C5_Witness ==
    /\ pc = "sprinkled"
    /\ \E m \in Metrics : \E b1, b2, b3 \in DOMAIN D(m) :
          /\ D(m)[b1] = Zero /\ U(m)[b1] = Zero
          /\ D(m)[b2] = Zero /\ U(m)[b2][1] > 0
          /\ D(m)[b3][1] < 0 /\ U(m)[b3][1] > 0
          /\ ratio[m][b3][1] < 0

\* C6: when every basin's denominator is 0 for a category, every final ratio
\* of the category is 0, the orphan ratio is 0, and the orphan pool is
\* reported (the sum of the positive numerators) without being redistributed.
C6_AllZeroDenominators ==
    pc = "sprinkled" =>
        \A m \in Metrics :
            (\A b \in DOMAIN D(m) : D(m)[b] = Zero) =>
                /\ \A b \in DOMAIN final[m] : final[m][b] = Zero
                /\ orph_r[m] = Zero
                /\ orphan[m] = FSum(U(m), {b \in DOMAIN U(m) : U(m)[b][1] > 0})

\* three basins without activity, with positive and negative cost
C6_Witness ==
    /\ pc = "sprinkled"
    /\ \E m \in Metrics :
          /\ DOMAIN D(m) = BasinNames
          /\ \A b \in BasinNames : D(m)[b] = Zero
          /\ \E b \in BasinNames : U(m)[b][1] > 0
          /\ \E b \in BasinNames : U(m)[b][1] < 0
          /\ orphan[m] # Zero

\* the basin labels of the Step-1 numerator table (the blank key aside)
NumLabels == {k.s : k \in {c \in DOMAIN df_num : ~IsNA(c)}}

\* C4: the series handed to the ratio engine are indexed by the union of the
\* basins of the numerator table and of the activity table, so a basin with
\* unallocated cost and no activity record is in the index with a
\* denominator of 0.
C4_IndexIsUnionOfBasins ==
    pc \in {"aligned", "ratios", "sprinkled", "allocated"} =>
        /\ \A x \in DOMAIN numer :
               DOMAIN numer[x] = NumLabels \cup DOMAIN df_den
        /\ \A x \in DOMAIN denomr :
               DOMAIN denomr[x] = NumLabels \cup DOMAIN df_den
        /\ \A b \in NumLabels \ DOMAIN df_den :
               /\ b \in DOMAIN denomr.prop_total
               /\ denomr.prop_total[b] = Zero

\* the text ^\d{6}$ is matched against: the cell's own text, a whole number
\* written in decimal, a number with a fraction written with its point
StrictSixDigits(cell) ==
    IF cell.t = "nan" THEN FALSE
    ELSE IF cell.t = "num" THEN ~cell.frac /\ MatchSixDigits(DecStr(cell.ip))
    ELSE MatchSixDigits(cell.s)

\* C7: _is_six_digit classifies a project number as allocated only when it
\* matches ^\d{6}$ (a number with a fraction such as 123456.7 is
\* unallocated), every six-digit value without a leading zero is allocated,
\* and the classification agrees with the mask that builds the Unalloc
\* bucket for every value.
C7_StrictSixDigitFilter ==
    /\ is6 # Unset =>
          /\ is6[1] => StrictSixDigits(val)
          /\ (StrictSixDigits(val) /\ IntOfFloat(proj(val)) >= SixDigitLow)
                 => is6[1]
    /\ (is6 # Unset /\ unalloc_bucket # Unset) => is6[1] = ~unalloc_bucket[1]

\* the rows of a frame whose project number is no six-digit code
RowsWithoutSixDigitProject(df) ==
    DF(df.cols, SelectSeq(df.rows, LAMBDA r : mask_Unalloc(r["Project Number"])))

\* C8: the Step-1 numerator sums only rows of the Unalloc sheet and rows of
\* the Adjustments sheet whose project number is no six-digit code; no row
\* carrying a six-digit project number (the rows of Unass) is summed into a
\* basin's numerator.
C8_NumeratorSourcesOnly ==
    pc \notin {"start", "read"} =>
        df_num = _step1_build_combined(
                     RowsWithoutSixDigitProject(df_unalloc_raw),
                     RowsWithoutSixDigitProject(df_adjust_raw),
                     DF(df_unass_raw.cols, <<>>))

\* the positions, in sheet order, of the rows of a block that stay in the
\* frame read from it: those from row `first` on that are not all blank and
\* are not removed by the project filter
SurvivingRows(sheet, first, filtered) ==
    SelectSeq([i \in 1..Len(sheet.rows) |-> i],
              LAMBDA i : /\ i >= first
                         /\ \E c \in sheet.cols : ~IsNA(sheet.rows[i][c])
                         /\ ~(filtered /\
                              _is_six_digit(sheet.rows[i]["Project Number"])))

BasinHeaderOf(df) == CHOOSE h \in BasinHeaders : h \in df.cols

\* every row read from the block carries the basin named on the nearest
\* preceding row of the block, in the block's original row order
FilledFromBlock(df, sheet, first, filtered) ==
    LET kept == SurvivingRows(sheet, first, filtered)
    IN  /\ Len(df.rows) = Len(kept)
        /\ \A j \in 1..Len(kept) :
               df.rows[j][BasinHeaderOf(df)] =
                   FilledCell(sheet.rows, BasinHeaderOf(sheet), kept[j])

\* C9: in each numerator source block every row with a blank basin cell is
\* attributed to the basin named on the nearest preceding row of that block
\* in its original row order, also when that named row is removed by the
\* six-digit project filter and when the basin header is 'ENG BASIN R1'.
C9_ForwardFillPerBlock ==
    pc # "start" =>
        /\ FilledFromBlock(df_unalloc_raw, wb.unalloc, 3, FALSE)
        /\ FilledFromBlock(df_adjust_raw, wb.adjust, 1, TRUE)

\* a basin label with its case folded and its outer blanks removed
NormalisedLabel(b) == IF b \in {"PM", "pm", "PM "} THEN "PM" ELSE b

\* C10: the basin grouping key is case- and whitespace-normalised: labels
\* that differ only in letter case or outer blanks are summed into one basin
\* total, in the numerator table and in the activity table.
C10_NormalisedGroupingKey ==
    /\ pc \notin {"start", "read"} =>
          \A b1, b2 \in NumLabels :
              NormalisedLabel(b1) = NormalisedLabel(b2) => b1 = b2
    /\ pc \in {"step2", "aligned", "ratios", "sprinkled", "allocated"} =>
          \A b1, b2 \in DOMAIN df_den :
              NormalisedLabel(b1) = NormalisedLabel(b2) => b1 = b2

-----------------------------------------------------------------------------
(* The run on workbooks whose Unalloc rows spread over every cost column *)

MaxCostRows == 2

\* two activity records, one per basin, over the whole window
TwoBasinActivity ==
    Activity(<<MainRow(SixDigitProject, Lbl("PM"), 1),
               MainRow(NumCell(100002, FALSE), Lbl("CA"), 1)>>, <<>>)

InitNum ==
    /\ pc = "start"
    /\ NoFilter /\ NoEngine /\ Untouched
    /\ window = [ms |-> WindowStart, me |-> WindowEnd]
    /\ \E u \in SeqsUpTo({CostRow(DetailCols("ENG BASIN R1"), "ENG BASIN R1",
                                  NanCell, Lbl(b), c, 1) :
                            b \in {"PM", "CA"}, c \in DetailCostHeaders},
                         MaxCostRows) :
          wb = [unalloc  |-> DetailSheet("ENG BASIN R1", u),
                current  |-> CurrentSheet,
                adjust   |-> DF(GridCols("LBRT BASIN"),
                                <<CostRow(GridCols("LBRT BASIN"), "LBRT BASIN",
                                          StrCell(<<"A">>), Lbl("PM"),
                                          "FUEL COST", 1)>>),
                unass    |-> DetailSheet("ENG BASIN R1", <<>>),
                database |-> TwoBasinActivity,
                sheetnames |-> SheetNames, distribution |-> <<>>,
                formulas |-> {}]

SpecNum == InitNum /\ [][Next]_vars

\* the rows Step 1 concatenates, under the canonical headers
CombinedRows ==
    LET srcs == step1_sources(df_unalloc_raw, df_adjust_raw, df_unass_raw)
    IN  concat([i \in 1..Len(srcs) |->
                   _standardise_cost_columns(rename(srcs[i], EngToLbrt))]).rows

\* the sum of the columns cols over the rows of basin b
CategorySum(rows, b, cols) ==
    LET idx == {i \in 1..Len(rows) : rows[i]["LBRT BASIN"] = Lbl(b)}
        amt == [i \in idx |-> FSum([c \in cols |-> ValOf(rows[i][c])], cols)]
    IN  FSum(amt, idx)

\* C11: per basin of the index, the daily numerator is Fuel Cost + Mat Cost +
\* Other Pad Cost + Alloc VM Cost summed over the basin's rows, and Prop
\* Cost, Truck Cost and Chem Cost each make their own series: no column
\* reaches two series.
C11_DailyNumeratorColumns ==
    pc \in {"aligned", "ratios", "sprinkled", "allocated", "written",
              "saved"} =>
        LET rows == CombinedRows
        IN  \A b \in DOMAIN numer.daily_u :
                /\ numer.daily_u[b] =
                       CategorySum(rows, b, {"Fuel Cost", "Mat Cost",
                                             "Other Pad Cost", "Alloc VM Cost"})
                /\ numer.sand_u[b] = CategorySum(rows, b, {"Prop Cost"})
                /\ numer.hand_u[b] = CategorySum(rows, b, {"Truck Cost"})
                /\ numer.chem_u[b] = CategorySum(rows, b, {"Chem Cost"})

C11_Witness ==
    /\ pc = "aligned"
    /\ numer.daily_u["PM"] = Flt(2) /\ numer.sand_u["PM"] = Flt(1)
    /\ numer.hand_u["CA"] = Zero /\ numer.chem_u["PM"] = Zero

-----------------------------------------------------------------------------
(* The run on workbooks whose activity records vary *)

MaxActs == 2

\* a Main-Combo record
ActRow(pad, st, en, b, tn, cf) ==
    [x \in MainCols |->
        CASE x = "Pad No"     -> pad
          [] x = "Pad Start"  -> st
          [] x = "Pad End"    -> en
          [] x = "LBRT BASIN" -> b
          [] x = "Prop TN"    -> tn
          [] OTHER            -> cf]

\* instants around the window
Before    == Ts(0)
MidWindow == Ts(WindowStart + DayTicks)
After     == Ts(WindowEnd + 2 * DayTicks)

\* pairs of dates: none, spanning, one missing, partly inside, outside
DatePairs ==
    {<<NanCell, NanCell>>, <<Before, After>>, <<NanCell, After>>,
     <<Before, NanCell>>, <<Before, MidWindow>>, <<MidWindow, After>>,
     <<Before, Ts(WindowStart - 1)>>, <<Ts(WindowEnd + DayTicks), After>>}

Pad100000 == <<"1", "0", "0", "0", "0", "0">>

ActSamples ==
    {ActRow(SixDigitProject, d[1], d[2], Lbl("PM"), Num(Flt(2)), Num(Flt(2))) :
        d \in DatePairs}
    \cup {ActRow(SixDigitProject, Before, After, Lbl("PM"), Num(Flt(x[1])),
                 Num(Flt(x[2]))) : x \in {<<10, 2>>, <<5, 1>>}}
    \cup {ActRow(SixDigitProject, Before, After, b, Num(Flt(2)), Num(Flt(2))) :
             b \in {Lbl("CA"), NanCell}}
    \cup {ActRow(p, Before, After, Lbl("PM"), Num(Flt(2)), Num(Flt(2))) :
             p \in {NumCell(100002, FALSE), StrCell(<<"A">>),
                    StrCell(Pad100000), NumCell(100000, TRUE)}}
    \cup {ActRow(SixDigitProject, Before, After, Lbl("PM"), NanCell,
                 Num(Flt(2)))}

\* the Current sheet of these runs: project 100000 once as a number and once
\* as a text
ActCurrentSheet ==
    DetailSheet("ENG BASIN R1",
        <<CostRow(DetailCols("ENG BASIN R1"), "ENG BASIN R1", SixDigitProject,
                  Lbl("PM"), "Chemical and Gel cost", 2),
          CostRow(DetailCols("ENG BASIN R1"), "ENG BASIN R1",
                  StrCell(Pad100000), Lbl("PM"), "Chemical and Gel cost", 1)>>)

\* the Unalloc sheet of these runs: a cost of every category in basin PM
ActUnallocSheet ==
    DetailSheet("ENG BASIN R1",
        [i \in 1..4 |->
            CostRow(DetailCols("ENG BASIN R1"), "ENG BASIN R1", NanCell,
                    Lbl("PM"),
                    <<"Prop Cost", "Truck Cost", "Chemical and Gel cost",
                      "Fuel Cost">>[i], 1)])

InitAct ==
    /\ pc = "start"
    /\ NoFilter /\ NoEngine /\ Untouched
    /\ window = [ms |-> WindowStart, me |-> WindowEnd]
    /\ \E m \in SeqsUpTo(ActSamples, MaxActs) :
          /\ m # <<>>
          /\ wb = [unalloc  |-> ActUnallocSheet,
                   current  |-> ActCurrentSheet,
                   adjust   |-> DF(GridCols("ENG BASIN R1"), <<>>),
                   unass    |-> DetailSheet("ENG BASIN R1", <<>>),
                   database |-> Activity(m, <<>>),
                   sheetnames |-> SheetNames, distribution |-> <<>>,
                formulas |-> {}]

SpecAct == InitAct /\ [][Next]_vars

\* the activity records as read, Main-Combo then stragglers
ActivityRows == concat(<<df_main_raw, df_strag_raw>>).rows

\* Step 2 has built its tables
DenominatorBuilt ==
    pc \in {"step2", "aligned", "ratios", "sprinkled", "allocated", "written",
           "saved"}

\* C12: for every basin PropTotal is the sum over the basin's activity
\* records of Prop TN x Avg. Client Provided, not of Prop TN alone.
C12_PropTotalIsWeighted ==
    DenominatorBuilt =>
        LET rows == ActivityRows
        IN  \A b \in DOMAIN df_den :
                LET idx == {i \in 1..Len(rows) : rows[i]["LBRT BASIN"] = Lbl(b)}
                IN  df_den[b].PropTotal =
                        FSum([i \in idx |->
                                 FMul(fillna0(rows[i]["Prop TN"]),
                                      fillna0(rows[i]["Avg. Client Provided"]))],
                             idx)

\* the example of the specification: records (10, 2) and (5, 1) give 25
C12_Witness ==
    /\ pc = "step2"
    /\ Len(ActivityRows) = 2
    /\ {ActivityRows[i]["Prop TN"] : i \in 1..2} = {Num(Flt(10)), Num(Flt(5))}
    /\ df_den["PM"].PropTotal = Flt(25)

\* the number of days of the report window, month_start to month_end
\* inclusive
DaysInWindow == Frac(window.me - window.ms + DayTicks, DayTicks)

\* the active days Step 2 gave record i
ActiveDays(i) == df_main.rows[i]["pad_days"].v

\* C13: active_days is the overlap of [Pad Start, Pad End] with the report
\* window, never negative: a record that starts before the window and ends
\* after it gets exactly the number of days of the window, a record entirely
\* before or after it gets 0, and 0 <= active_days <= days in the window.
C13_ActiveDaysIsOverlap ==
    DenominatorBuilt =>
        LET rows == ActivityRows
        IN  \A i \in 1..Len(rows) :
                LET st == rows[i]["Pad Start"]
                    en == rows[i]["Pad End"]
                IN  /\ ~FGt0(FNeg(ActiveDays(i)))
                    /\ ~FGt0(FSub(ActiveDays(i), DaysInWindow))
                    /\ (st.t = "ts" /\ en.t = "ts") =>
                          /\ (st.v < window.ms /\ en.v >= window.me + DayTicks)
                                => ActiveDays(i) = DaysInWindow
                          /\ (en.v < window.ms \/ st.v >= window.me + DayTicks)
                                => ActiveDays(i) = Zero

\* C14: a record without both dates is kept and given the window bounds
\* month_start and month_end as its start and end, so that its activity
\* lies inside the window and is counted unclipped; a record without only
\* one of the dates is given no fallback.
C14_BothDatesMissingFallback ==
    DenominatorBuilt =>
        LET rows == ActivityRows
        IN  /\ Len(df_main.rows) = Len(rows)
            /\ \A i \in 1..Len(rows) :
                   LET st == rows[i]["Pad Start"]
                       en == rows[i]["Pad End"]
                       r  == df_main.rows[i]
                   IN  /\ (IsNA(st) /\ IsNA(en)) =>
                             /\ r["Pad Start"] = Ts(window.ms)
                             /\ r["Pad End"] = Ts(window.me)
                             /\ ActiveDays(i) =
                                    Frac(window.me - window.ms, DayTicks)
                       /\ (IsNA(st) /\ ~IsNA(en)) =>
                             /\ IsNA(r["Pad Start"]) /\ r["Pad End"] = en
                             /\ ActiveDays(i) = Zero
                       /\ (~IsNA(st) /\ IsNA(en)) =>
                             /\ r["Pad Start"] = st /\ IsNA(r["Pad End"])
                             /\ ActiveDays(i) = Zero

C14_Witness ==
    /\ pc = "step2"
    /\ Len(ActivityRows) = 2
    /\ IsNA(ActivityRows[1]["Pad Start"]) /\ IsNA(ActivityRows[1]["Pad End"])
    /\ IsNA(ActivityRows[2]["Pad Start"]) /\ ~IsNA(ActivityRows[2]["Pad End"])
    /\ df_main.rows[1]["Pad End"] = Ts(window.me)
    /\ df_den["PM"].DayTotal = Frac(window.me - window.ms, DayTicks)

\* the number a Pad No or Project Number cell parses to, <<>> when it does
\* not parse
ParsedNumber(c) ==
    IF c.t = "num" THEN <<c.ip>>
    ELSE IF c.t = "str" /\ FloatParses(c.s) THEN <<IntOfFloat(c.s)>>
    ELSE <<>>

C16_BlankBasinExcluded ==
    DenominatorBuilt =>
        LET rows   == wb.database.main.rows
            labels == {rows[i]["LBRT BASIN"].s :
                          i \in {j \in 1..Len(rows) :
                                    ~IsNA(rows[j]["LBRT BASIN"])}}
            of(b)  == {i \in 1..Len(rows) : rows[i]["LBRT BASIN"] = Lbl(b)}
            col(c) == [i \in 1..Len(rows) |-> df_main.rows[i][c].v]
        IN  /\ DOMAIN df_den = labels
            /\ \A i \in 1..Len(rows) :
                   df_main.rows[i]["LBRT BASIN"] = rows[i]["LBRT BASIN"]
            /\ \A b \in labels :
                   /\ df_den[b].PropTotal = FSum(col("PropXClient"), of(b))
                   /\ df_den[b].DayTotal  = FSum(col("pad_days"), of(b))
                   /\ df_den[b].ChemTotal = FSum(col("Chem Cost"), of(b))

\* a record without basin below a record of PM: PM's totals are those of the
\* first record alone
C16_Witness ==
    /\ pc = "step2"
    /\ Len(df_main.rows) = 2
    /\ df_main.rows[1]["LBRT BASIN"] = Lbl("PM")
    /\ IsNA(df_main.rows[2]["LBRT BASIN"])
    /\ DOMAIN df_den = {"PM"}
    /\ df_den["PM"].PropTotal = df_main.rows[1]["PropXClient"].v
    /\ FGt0(df_main.rows[2]["PropXClient"].v)

\* Step 4 has built the allocation table
Allocated == pc \in {"allocated", "written", "saved"}

\* C17: for a record whose basin is in the ratio index, Unalloc_Sand is Prop
\* TN x final_sand[basin], Unalloc_Handle is Prop TN x final_handle[basin],
\* Unalloc_Chem is Chem Cost x final_chem[basin] and Unalloc_Daily is
\* active_days x final_daily[basin].
C17_AllocationByCategory ==
    Allocated =>
        LET rows == wb.database.main.rows
        IN  \A i \in 1..Len(rows) :
                LET b  == rows[i]["LBRT BASIN"]
                    tn == ValOf(rows[i]["Prop TN"])
                    o  == df_out.rows[i]
                IN  (~IsNA(b) /\ b.s \in DOMAIN final["Sand"]) =>
                       /\ o["Unalloc_Sand"] = Num(FMul(tn, final["Sand"][b.s]))
                       /\ o["Unalloc_Handle"] =
                             Num(FMul(tn, final["Handle"][b.s]))
                       /\ o["Unalloc_Chem"] =
                             Num(FMul(df_main.rows[i]["Chem Cost"].v,
                                      final["Chem"][b.s]))
                       /\ o["Unalloc_Daily"] =
                             Num(FMul(ActiveDays(i), final["Daily"][b.s]))

\* a record of PM with four positive allocations, the daily one different
\* from the sand one
C17_Witness ==
    /\ pc = "allocated"
    /\ \E i \in 1..Len(df_out.rows) :
           LET o == df_out.rows[i]
           IN  /\ o["LBRT BASIN"] = Lbl("PM")
               /\ \A c \in AllocCols : FGt0(o[c].v)
               /\ o["Unalloc_Daily"] # o["Unalloc_Sand"]
               /\ o["Unalloc_Chem"] # o["Unalloc_Sand"]

\* C18: a record whose basin has no entry in the final ratio series, a blank
\* basin included, gets exactly 0 in the four allocated columns, never NaN.
C18_UnknownBasinGetsZero ==
    Allocated =>
        \A i \in 1..Len(df_out.rows) :
            LET o == df_out.rows[i]
                b == o["LBRT BASIN"]
            IN  (IsNA(b) \/ b.s \notin DOMAIN final["Sand"]) =>
                    \A c \in AllocCols : o[c] = Num(Zero)

-----------------------------------------------------------------------------
(* The run on workbooks that may lack a sheet or the weighting column *)

\* a sheet that is not in the workbook has no content
SheetOrNone(names, name, sheet) == IF name \in names THEN sheet ELSE EmptyDF

InitAbort ==
    /\ pc = "start"
    /\ NoFilter /\ NoEngine /\ Untouched
    /\ window = [ms |-> WindowStart, me |-> WindowEnd]
    /\ \E names \in {S \in SUBSET SheetNames : "Database" \in S},
          mcols \in {MainCols, MainCols \ {"Avg. Client Provided"}},
          b \in {"PM", "CA"}, tn \in 0..1 :
          wb = [unalloc  |-> SheetOrNone(names, "P. VM - Unalloc",
                                         ActUnallocSheet),
                current  |-> SheetOrNone(names, "P. VM - Current",
                                         ActCurrentSheet),
                adjust   |-> SheetOrNone(names, "P. VM - Adjustments",
                                         DF(GridCols("ENG BASIN R1"), <<>>)),
                unass    |-> SheetOrNone(names, "P. VM - Unass",
                                         DetailSheet("ENG BASIN R1", <<>>)),
                database |->
                    [main  |-> keep_columns(
                                   DF(MainCols,
                                      <<MainRow(SixDigitProject, Lbl(b), tn)>>),
                                   mcols),
                     strag |-> DF(StragCols, <<>>)],
                sheetnames |-> names, distribution |-> <<>>,
                formulas |-> {}]

SpecAbort == InitAbort /\ [][Next]_vars

\* the keywords of the lookups that find no sheet
MissingLookups ==
    {k \in {SheetLookups[i] : i \in 1..Len(SheetLookups)} :
        \A n \in wb.sheetnames : ~(k \subseteq SheetKeywords(n))}

\* the KeyError that names the keywords k
ErrorNaming(k) ==
    CASE k = {"p. vm", "unalloc"} ->
            "KeyError: No sheet name contains keywords: ['p. vm', 'unalloc']"
      [] k = {"p. vm", "current"} ->
            "KeyError: No sheet name contains keywords: ['p. vm', 'current']"
      [] k = {"p. vm", "adjust"} ->
            "KeyError: No sheet name contains keywords: ['p. vm', 'adjust']"
      [] k = {"p. vm", "unass"} ->
            "KeyError: No sheet name contains keywords: ['p. vm', 'unass']"

\* C19: a run that finds no sheet for some keywords, or no column 'Avg.
\* Client Provided', fails with an error naming those keywords or that
\* column, and a failed run has not touched the workbook: the workbook
\* changes only in the step that saves it, which no failed run takes.
C19_FatalErrorBeforeSave ==
    /\ [](/\ (pc # "start" /\ "Unalloc_Distribution" \notin wb.sheetnames
                 /\ MissingLookups # {}) =>
                 /\ pc = "failed"
                 /\ error \in {ErrorNaming(k) : k \in MissingLookups}
          /\ (pc \notin {"start", "read", "step1"} /\ MissingLookups = {}
                 /\ "Avg. Client Provided" \notin wb.database.main.cols) =>
                 /\ pc = "failed"
                 /\ error = "KeyError: Column 'Avg. Client Provided' is missing"
          /\ (pc = "failed") =>
                 /\ wb.distribution = <<>>
                 /\ "Unalloc_Distribution" \notin wb.sheetnames)
    /\ [][/\ pc # "failed"
          /\ (wb' # wb) => (pc = "written" /\ pc' = "saved" /\ error = None)
         ]_vars

C19_Witness ==
    /\ pc = "failed"
    /\ error = "KeyError: Column 'Avg. Client Provided' is missing"
    /\ wb.distribution = <<>>

-----------------------------------------------------------------------------
(* The run on workbooks whose Adjustments grid holds text in a cost cell *)

\* what a PROP COST cell of the hand-filled grid may hold
TypedCosts == {Num(Flt(1)), Lbl("$1,000"), Lbl("(5)"), Lbl("n/a")}

InitText ==
    /\ pc = "start"
    /\ NoFilter /\ NoEngine /\ Untouched
    /\ window = [ms |-> WindowStart, me |-> WindowEnd]
    /\ \E a \in SeqsUpTo({[CostRow(GridCols("ENG BASIN R1"), "ENG BASIN R1",
                                   StrCell(<<"A">>), Lbl(b), "PROP COST", 1)
                              EXCEPT !["PROP COST"] = c] :
                            b \in {"PM", "CA"}, c \in TypedCosts},
                         MaxCostRows) :
          wb = [unalloc  |-> ActUnallocSheet,
                current  |-> ActCurrentSheet,
                adjust   |-> DF(GridCols("ENG BASIN R1"), a),
                unass    |-> DetailSheet("ENG BASIN R1", <<>>),
                database |-> TwoBasinActivity,
                sheetnames |-> SheetNames, distribution |-> <<>>,
                formulas |-> {}]

SpecText == InitText /\ [][Next]_vars

\* the number a cost cell stands for once currency signs, thousands
\* separators and parentheses are read: "$1,000" is 1000, "(5)" is -5, and
\* what still is no number counts 0
CostValue(c) ==
    IF c.t = "num" THEN c.v
    ELSE IF c = Lbl("$1,000") THEN Flt(1000)
    ELSE IF c = Lbl("(5)") THEN Flt(-5)
    ELSE Zero

\* C20: a cost cell that is no plain number never stops the run: its parsed
\* value is used, or 0 when it has none, and the values of the other rows of
\* the column stay in the numerator.
C20_TextCostCellTolerated ==
    /\ pc # "failed"
    /\ pc \in {"aligned", "ratios", "sprinkled", "allocated", "written",
              "saved"} =>
          \A b \in DOMAIN numer.sand_u :
              LET u   == wb.unalloc.rows
                  a   == wb.adjust.rows
                  ui  == {i \in 3..Len(u) : u[i]["ENG BASIN R1"] = Lbl(b)}
                  ai  == {i \in 1..Len(a) : a[i]["ENG BASIN R1"] = Lbl(b)}
              IN  numer.sand_u[b] =
                      FAdd(FSum([i \in ui |-> CostValue(u[i]["Prop Cost"])], ui),
                           FSum([i \in ai |-> CostValue(a[i]["PROP COST"])], ai))

-----------------------------------------------------------------------------
(* The sheet written at the end of the run *)

\* the titles in the order the claim gives: raw inputs, numerator,
\* denominator, orphan costs, orphan ratios, final ratios, allocations
SectionTitles ==
    <<"RAW - P. VM Unalloc", "RAW - P. VM Adjustments", "RAW - P. VM Unass",
      "RAW - P. VM Current", "RAW - Main_Combo", "RAW - Stragglers",
      "STEP 1 - Numerator Combined", "STEP 2 - Denominator Metrics",
      "STEP 3-a - Orphan Costs", "STEP 3-b - Orphan Ratios",
      "STEP 3-c - Final Basin Ratios", "STEP 4 - Pad-level Allocations">>

-----------------------------------------------------------------------------
(* The run on workbooks that hold formulas and, or, a sheet from an earlier run *)

\* the cells of the Grand Total row (row 2) of a detail sheet, which
\* _add_grand_total fills with =SUM(...) formulas
GrandTotalFormulas(name) ==
    {<<name, 2, c>> : c \in DetailCostHeaders \cup {"Prop Rev"}}

\* a sheet Unalloc_Distribution left by an earlier run
StaleSheet ==
    <<[title |-> "RAW - P. VM Unalloc", df |-> EmptyDF,
       first |-> 1, header |-> 3, last |-> 3]>>

InitBook ==
    /\ pc = "start"
    /\ NoFilter /\ NoEngine /\ Untouched
    /\ window = [ms |-> WindowStart, me |-> WindowEnd]
    /\ \E u \in SeqsUpTo({CostRow(DetailCols("ENG BASIN R1"), "ENG BASIN R1",
                                  NanCell, Lbl("PM"), c, 1) :
                            c \in {"Prop Cost", "Fuel Cost"}}, MaxCostRows),
          fs \in {{}, GrandTotalFormulas("P. VM - Unalloc")
                        \cup GrandTotalFormulas("P. VM - Unass")},
          old \in {<<>>, <<StaleSheet>>} :
          wb = [unalloc  |-> DetailSheet("ENG BASIN R1", u),
                current  |-> CurrentSheet,
                adjust   |-> DF(GridCols("LBRT BASIN"), <<>>),
                unass    |-> DetailSheet("ENG BASIN R1", <<>>),
                database |-> TwoBasinActivity,
                sheetnames |-> IF old = <<>> THEN SheetNames
                               ELSE SheetNames \cup {"Unalloc_Distribution"},
                distribution |-> old,
                formulas |-> fs]

SpecBook == InitBook /\ [][Next]_vars

\* the sheets of the workbook other than Unalloc_Distribution
OtherSheets == {"unalloc", "current", "adjust", "unass", "database"}

\* C22: the save leaves exactly one sheet Unalloc_Distribution, the one just
\* written, adds or removes no other sheet, and leaves every other sheet
\* with the cells it had, the cells holding formulas included.
C22_OnlyDistributionSheetChanges ==
    [][(pc = "written" /\ pc' = "saved") =>
          /\ wb'.sheetnames = wb.sheetnames \cup {"Unalloc_Distribution"}
          /\ wb'.distribution = <<ws>>
          /\ \A f \in OtherSheets : wb'[f] = wb[f]
          /\ wb'.formulas = wb.formulas]_vars

-----------------------------------------------------------------------------
(* Two calls in a row on the same file with the same window *)

\* what a call computes: numerator, denominator, final ratios, allocations
Results ==
    [num |-> df_num, den |-> df_den, final |-> final, out |-> df_out]

\* run_unalloc_distribution is called again on the file the first call
\* saved: its local names start afresh, the file and the window stay
RunAgain ==
    /\ pc = "saved"
    /\ prev = <<>>
    /\ prev' = <<Results>>
    /\ pc' = "start"
    /\ df_unalloc_raw' = None /\ df_current_raw' = None
    /\ df_adjust_raw' = None  /\ df_unass_raw' = None
    /\ df_main_raw' = None    /\ df_strag_raw' = None
    /\ df_num' = None /\ df_main' = None /\ df_den' = None /\ df_out' = None
    /\ numer' = None /\ denomr' = None /\ ratio' = None
    /\ orphan' = None /\ orph_r' = None /\ final' = None
    /\ ws' = <<>>
    /\ UNCHANGED <<error, fvars, ivars, xvars>>

NextTwice == Next \/ RunAgain

SpecTwice == InitBook /\ [][NextTwice]_vars

\* C23: the second of two calls on the same file and window does not fail,
\* and once it has allocated, its numerator, denominator, final ratios and
\* pad-level allocations are those of the first call, although the file now
\* holds the sheet the first call wrote and no formulas.
C23_SecondRunSameResults ==
    prev # <<>> =>
        /\ pc # "failed"
        /\ (pc \in {"allocated", "written", "saved"} => Results = prev[1])

C23_Witness ==
    /\ prev # <<>>
    /\ pc = "saved"
    /\ Results = prev[1]
    /\ "Unalloc_Distribution" \in wb.sheetnames
    /\ \E b \in DOMAIN final["Sand"] : FGt0(final["Sand"][b])

-----------------------------------------------------------------------------
(* The FX table of the reference workbook: update_fx_ref *)

\* The reference workbook is its FX sheet (<<>> when it has none, <<table>>
\* otherwise, a table being a DataFrame of what pandas reads from the sheet)
\* and its other sheets, a function from sheet name to content.
NoSheets == [n \in {} |-> None]

\* the text of a Date cell as Series.astype(str) / str() gives it
PyStr(c) == IF c.t = "str" THEN c.s ELSE <<"n", "a", "n">>

\* lines 185-189: pd.read_excel(..., sheet_name="FX"), an empty frame when
\* that raises
read_fx(r) == IF r.fx = <<>> THEN EmptyDF ELSE r.fx[1]

PeriodToDate(h) == IF h = "Period" THEN "Date" ELSE h

\* lines 191-202: an empty table starts over with the two columns; otherwise
\* Period is renamed to Date when there is no Date, and a missing Date or
\* rate column is added blank
fx_prepare(fx_df, col) ==
    IF fx_df.rows = <<>> THEN DF({"Date", col}, <<>>)
    ELSE LET renamed == IF "Date" \notin fx_df.cols /\ "Period" \in fx_df.cols
                        THEN rename(fx_df, PeriodToDate)
                        ELSE fx_df
         IN  reindex_columns(renamed, renamed.cols \cup {"Date", col})

\* mutant: a row is appended whether or not the month is there
fx_upsert_append(df, month, fx, col) ==
    DF(df.cols,
       Append(df.rows,
              [c \in df.cols |->
                  IF c = "Date" THEN StrCell(month)
                  ELSE IF c = col THEN Num(fx) ELSE NanCell]))

\* lines 204-213: the rate is written into every row whose Date, as text,
\* is the month; when there is none, one row is appended
fx_upsert(df, month, fx, col) ==
    LET hit == {i \in 1..Len(df.rows) : PyStr(df.rows[i]["Date"]) = month}
    IN  IF hit # {}
        THEN DF(df.cols,
                [i \in 1..Len(df.rows) |->
                    IF i \in hit THEN [df.rows[i] EXCEPT ![col] = Num(fx)]
                    ELSE df.rows[i]])
        ELSE DF(df.cols,
                Append(df.rows,
                       [c \in df.cols |->
                           IF c = "Date" THEN StrCell(month)
                           ELSE IF c = col THEN Num(fx) ELSE NanCell]))

\* lines 215-228: a new workbook is made, the table is written into its one
\* sheet FX, and the workbook is saved over the reference file
update_fx_ref(r, month, fx, col) ==
    [fx |-> <<fx_upsert(fx_prepare(read_fx(r), col), month, fx, col)>>,
     others |-> NoSheets]

\* the month labels, the rates and the rate columns of the calls drawn
Months == {<<"J">>, <<"F">>}
Rates == {Frac(3, 4), Frac(5, 4)}
FxCols == {"CAD/USD", "AUD/USD"}

UpdateFxRef ==
    \E month \in Months, fx \in Rates, col \in FxCols :
        /\ ref' = update_fx_ref(ref, month, fx, col)
        /\ call' = <<[month |-> month, fx |-> fx, col |-> col]>>
        /\ UNCHANGED <<pc, error, fvars, ivars, rvars, svars, evars, df_out,
                       ws, prev, wf>>

\* the reference workbooks drawn: with or without an FX sheet, the table
\* under Date or Period or neither, with one or both rate columns, rows for
\* month J or with a blank date; with or without other sheets
MaxFxRows == 2

FxRow(cols, d, a) ==
    [c \in cols |-> IF c \in {"Date", "Period"} THEN d ELSE Num(a)]

FxTables ==
    UNION {{DF(cols, rows) :
               rows \in SeqsUpTo({FxRow(cols, d, Frac(1, 4)) :
                                     d \in {StrCell(<<"J">>), NanCell}},
                                 MaxFxRows)} :
           cols \in {{"Date", "CAD/USD"}, {"Date", "CAD/USD", "AUD/USD"},
                     {"Period", "AUD/USD"}, {"CAD/USD"}}}

RefSheets ==
    [n \in {"Account Groups", "CK data Pivot"} |->
        IF n = "Account Groups" THEN "groups" ELSE "pivot"]

InitFx ==
    /\ pc = None
    /\ NoFilter /\ NoEngine
    /\ error = None /\ wb = None /\ window = None
    /\ df_unalloc_raw = None /\ df_current_raw = None /\ df_adjust_raw = None
    /\ df_unass_raw = None /\ df_main_raw = None /\ df_strag_raw = None
    /\ df_num = None /\ df_main = None /\ df_den = None /\ df_out = None
    /\ ws = <<>> /\ prev = <<>>
    /\ call = <<>> /\ wf = None
    /\ \E t \in {<<>>} \cup {<<x>> : x \in FxTables},
          o \in {NoSheets, RefSheets} :
          ref = [fx |-> t, others |-> o]

NextFx == UpdateFxRef

SpecFx == InitFx /\ [][NextFx]_vars

\* the Date of row i of a table as the call sees it (Period standing for
\* Date when there is no Date), and the cell of row i under column k
DateOf(df, i) ==
    IF "Date" \in df.cols THEN df.rows[i]["Date"]
    ELSE IF "Period" \in df.cols THEN df.rows[i]["Period"]
    ELSE NanCell
CellOf(df, i, k) == IF k \in df.cols THEN df.rows[i][k] ELSE NanCell

\* the rows of a table whose Date is the month
RowsFor(df, month) ==
    {i \in 1..Len(df.rows) : DateOf(df, i) = StrCell(month)}

\* C24: a call update_fx_ref(ref, month, fx, col) leaves a row whose Date is
\* the month with col = fx; a row that was there for the month is updated
\* where it stands and none is added, otherwise exactly one row is appended;
\* every other row, and the other rate of the updated row, keeps its value;
\* a call for AUD/USD after one for CAD/USD with the same month leaves the
\* month's row holding both rates; a repeated call changes nothing.
C24_OverwriteOrAppend ==
    [][(call' # <<>>) =>
          LET c    == call'[1]
              pre  == read_fx(ref)
              post == ref'.fx[1]
              hit  == RowsFor(pre, c.month)
              n    == Len(pre.rows)
              oth  == CHOOSE k \in FxCols : k # c.col
          IN  /\ \E i \in RowsFor(post, c.month) :
                    post.rows[i][c.col] = Num(c.fx)
              /\ hit # {} =>
                    /\ Len(post.rows) = n
                    /\ RowsFor(post, c.month) = hit
                    /\ \A i \in hit : post.rows[i][c.col] = Num(c.fx)
              /\ hit = {} =>
                    /\ Len(post.rows) = n + 1
                    /\ RowsFor(post, c.month) = {n + 1}
              /\ \A i \in 1..n :
                    /\ DateOf(post, i) = DateOf(pre, i)
                    /\ CellOf(post, i, oth) = CellOf(pre, i, oth)
                    /\ i \notin hit =>
                          CellOf(post, i, c.col) = CellOf(pre, i, c.col)
              /\ (/\ call # <<>>
                  /\ call[1].col = "CAD/USD" /\ c.col = "AUD/USD"
                  /\ call[1].month = c.month) =>
                    /\ Cardinality(RowsFor(post, c.month))
                          = Cardinality(RowsFor(pre, c.month))
                    /\ \A i \in RowsFor(post, c.month) :
                          /\ post.rows[i]["CAD/USD"] = Num(call[1].fx)
                          /\ post.rows[i]["AUD/USD"] = Num(c.fx)
              /\ (call' = call) => (ref' = ref)]_vars

C24_Witness ==
    /\ call # <<>>
    /\ call[1].col = "AUD/USD"
    /\ Len(ref.fx[1].rows) >= 2
    /\ Cardinality(RowsFor(ref.fx[1], call[1].month)) = 1
    /\ \E i \in RowsFor(ref.fx[1], call[1].month) :
          /\ ref.fx[1].rows[i]["AUD/USD"] = Num(call[1].fx)
          /\ CellOf(ref.fx[1], i, "CAD/USD") \in {Num(x) : x \in Rates}

\* C30: a call of update_fx_ref leaves every sheet of the reference workbook
\* other than FX in place with the content it had.
C30_OnlyFxSheetChanges ==
    [][(call' # <<>>) => (ref'.others = ref.others)]_vars

-----------------------------------------------------------------------------
(* The monthly workflow: run_fx_and_comparison on valid Oracle files *)

\* the variables of the unallocated-cost run, which the workflow leaves alone
pvars == <<pc, error, fvars, ivars, rvars, svars, evars, df_out, ws, prev>>

\* 1) create_new_workbook: the sheets USD and CA are copied into a new file
CreateNewWorkbook ==
    /\ wf.pc = "start"
    /\ wf' = [wf EXCEPT !.pc = "created", !.new_wb = {"USD", "CA"}]
    /\ UNCHANGED <<pvars, ref, call>>

\* 2) calculate_fx_n5: fx = CA!N5 / USD!N5, the month is the last header of
\* USD, the rate goes into the reference workbook, the new workbook is saved
CalculateFxN5 ==
    /\ wf.pc = "created"
    /\ \E fx \in Rates :
          /\ ref' = update_fx_ref(ref, wf.month, fx, "CAD/USD")
          /\ call' = <<[month |-> wf.month, fx |-> fx, col |-> "CAD/USD"]>>
    /\ wf' = [wf EXCEPT !.pc = "cad"]
    /\ UNCHANGED pvars

\* 2b) calculate_fx_n5_aud under the same month when an AUD file was given
CalculateFxN5Aud ==
    /\ wf.pc = "cad"
    /\ IF wf.aud
       THEN \E fx \in Rates :
               /\ ref' = update_fx_ref(ref, wf.month, fx, "AUD/USD")
               /\ call' = <<[month |-> wf.month, fx |-> fx, col |-> "AUD/USD"]>>
       ELSE UNCHANGED <<ref, call>>
    /\ wf' = [wf EXCEPT !.pc = "aud"]
    /\ UNCHANGED pvars

\* 3) clean_cad_data: the sheet Data Sort CAD is added to the new workbook
CleanCadData ==
    /\ wf.pc = "aud"
    /\ wf' = [wf EXCEPT !.pc = "cleaned",
                        !.new_wb = @ \cup {"Data Sort CAD"}]
    /\ UNCHANGED <<pvars, ref, call>>

\* 4) integrate_tableau: the sheet PnL_CAN_GL is added to the new workbook
IntegrateTableau ==
    /\ wf.pc = "cleaned"
    /\ wf' = [wf EXCEPT !.pc = "tableau", !.new_wb = @ \cup {"PnL_CAN_GL"}]
    /\ UNCHANGED <<pvars, ref, call>>

\* 5) create_comparison_sheet: both sheets must be in the new workbook and
\* Account Groups in the reference workbook (sys.exit otherwise); then the
\* sheet Comparison is added and the path returned
CreateComparisonSheet ==
    /\ wf.pc = "tableau"
    /\ IF ~({"PnL_CAN_GL", "Data Sort CAD"} \subseteq wf.new_wb)
       THEN wf' = [wf EXCEPT !.pc = "exit",
                             !.msg = "Failed to create Comparison sheet."]
       ELSE IF "Account Groups" \notin DOMAIN ref.others
       THEN wf' = [wf EXCEPT !.pc = "exit",
                             !.msg = "Worksheet 'Account Groups' not found in ref_table. Please add it."]
       ELSE wf' = [wf EXCEPT !.pc = "done", !.new_wb = @ \cup {"Comparison"}]
    /\ UNCHANGED <<pvars, ref, call>>

\* the runs drawn: a reference workbook that holds Account Groups and CK
\* data Pivot, with any of the FX tables or none, either month, with and
\* without an AUD file
InitFlow ==
    /\ pc = None
    /\ NoFilter /\ NoEngine
    /\ error = None /\ wb = None /\ window = None
    /\ df_unalloc_raw = None /\ df_current_raw = None /\ df_adjust_raw = None
    /\ df_unass_raw = None /\ df_main_raw = None /\ df_strag_raw = None
    /\ df_num = None /\ df_main = None /\ df_den = None /\ df_out = None
    /\ ws = <<>> /\ prev = <<>>
    /\ call = <<>>
    /\ \E t \in {<<>>} \cup {<<x>> : x \in FxTables} :
          ref = [fx |-> t, others |-> RefSheets]
    /\ \E m \in Months, a \in BOOLEAN :
          wf = [pc |-> "start", new_wb |-> {}, aud |-> a, month |-> m,
                msg |-> None]

NextFlow ==
    \/ CreateNewWorkbook
    \/ CalculateFxN5
    \/ CalculateFxN5Aud
    \/ CleanCadData
    \/ IntegrateTableau
    \/ CreateComparisonSheet

SpecFlow == InitFlow /\ [][NextFlow]_vars

\* C25: with valid Oracle files and a reference workbook holding Account
\* Groups, every step of the workflow finds that sheet still in the
\* reference workbook, and the workflow does not exit before its end.
C25_WorkflowReachesEnd ==
    /\ wf.pc # "exit"
    /\ wf.pc \in {"tableau", "done"} => "Account Groups" \in DOMAIN ref.others

-----------------------------------------------------------------------------
(* The run on workbooks with costs and activity in three basins *)

\* an Unalloc row of basin b with amount a in one column of each category
ConsCostRow(b, a) ==
    [x \in DetailCols("ENG BASIN R1") |->
        CASE x = "Project Number" -> NanCell
          [] x = "ENG BASIN R1"   -> Lbl(b)
          [] x = "Period Name"    -> Lbl("Jan-25")
          [] x = "COMMENT"        -> NanCell
          [] x \in {"Prop Cost", "Truck Cost", "Chemical and Gel cost",
                    "Fuel Cost"}  -> Num(Flt(a))
          [] OTHER                -> Num(Zero)]

ConsBasins == <<"PM", "RK", "CA">>

\* activity records: per basin one over the whole window with chemicals,
\* one over half of it with another client factor, one outside the window
\* without tonnage; and one without a basin
ConsSamples ==
    UNION {{ActRow(SixDigitProject, Before, After, Lbl(b), Num(Flt(2)),
                   Num(Flt(2))),
            ActRow(SixDigitProject, Before, MidWindow, Lbl(b), Num(Flt(1)),
                   Num(Flt(1))),
            ActRow(NumCell(100002, FALSE), Ts(WindowEnd + DayTicks), After,
                   Lbl(b), Num(Zero), Num(Flt(1)))} :
           b \in {"PM", "RK", "CA"}}
    \cup {ActRow(SixDigitProject, Before, After, NanCell, Num(Flt(2)),
                 Num(Flt(1)))}

InitCons ==
    /\ pc = "start"
    /\ NoFilter /\ NoEngine /\ Untouched
    /\ window = [ms |-> WindowStart, me |-> WindowEnd]
    /\ \E a \in [1..3 -> 0..1], m \in SeqsUpTo(ConsSamples, MaxActs) :
          /\ m # <<>>
          /\ wb = [unalloc  |-> DetailSheet("ENG BASIN R1",
                                    [i \in 1..3 |->
                                        ConsCostRow(ConsBasins[i], a[i])]),
                   current  |-> ActCurrentSheet,
                   adjust   |-> DF(GridCols("ENG BASIN R1"), <<>>),
                   unass    |-> DetailSheet("ENG BASIN R1", <<>>),
                   database |-> Activity(m, <<>>),
                   sheetnames |-> SheetNames, distribution |-> <<>>,
                   formulas |-> {}]

SpecCons == InitCons /\ [][Next]_vars

\* df[col].sum(): the sum of a column of numbers, blanks skipped
RECURSIVE ColSum(_, _)
ColSum(rows, col) ==
    IF rows = <<>> THEN Zero
    ELSE LET x == ValOf(rows[1][col])
         IN  FAdd(IF IsNaN(x) THEN Zero ELSE x, ColSum(Tail(rows), col))

\* no numerator and no denominator of metric m is negative, and a basin
\* other than CA has a positive denominator
NonNeg(x) == FGt0(x) \/ FEq0(x)
ConservationCase(m) ==
    /\ \A b \in DOMAIN final[m] :
          NonNeg(numer[NumOf(m)][b]) /\ NonNeg(denomr[DenOf(m)][b])
    /\ \E b \in DOMAIN final[m] \ {"CA"} : FGt0(denomr[DenOf(m)][b])

\* the allocated column sums to the numerator summed over the basin index
Conserved(m, col) ==
    ColSum(df_out.rows, col) = FSum(numer[NumOf(m)], DOMAIN final[m])

\* C26: when no numerator or denominator is negative and a basin other than
\* CA has a positive denominator, the Unalloc_Daily of all records sum to the
\* daily numerator of all basins of the index, and the Unalloc_Chem to the
\* chem numerator.
C26_DailyAndChemConserved ==
    Allocated =>
        /\ ConservationCase("Daily") => Conserved("Daily", "Unalloc_Daily")
        /\ ConservationCase("Chem") => Conserved("Chem", "Unalloc_Chem")

C26_Witness ==
    /\ pc = "allocated"
    /\ ConservationCase("Daily") /\ ConservationCase("Chem")
    /\ FGt0(orphan["Daily"]) /\ FGt0(orphan["Chem"])
    /\ Conserved("Daily", "Unalloc_Daily")
    /\ Conserved("Chem", "Unalloc_Chem")
    /\ FGt0(FSum(numer["chem_u"], DOMAIN final["Chem"]))

\* C27: under the same conditions the Unalloc_Sand of all records sum to the
\* Prop Cost numerator of all basins of the index and the Unalloc_Handle to
\* the Truck Cost numerator, whatever the client factors.
C27_SandAndHandleConserved ==
    Allocated =>
        /\ ConservationCase("Sand") => Conserved("Sand", "Unalloc_Sand")
        /\ ConservationCase("Handle") => Conserved("Handle", "Unalloc_Handle")

-----------------------------------------------------------------------------
(* Chemical cost in the denominator *)

\* the Current rows whose Project Number is the Pad No of some activity row
MatchedCurrentRows ==
    {j \in 1..Len(df_current_raw.rows) :
        \E i \in 1..Len(df_main.rows) :
            /\ ~IsNA(df_main.rows[i]["Pad No"])
            /\ Int64(df_current_raw.rows[j]["Project Number"])
                  = df_main.rows[i]["Pad No"]}

\* C28: the ChemTotal of all basins together is at most the Chem Cost of the
\* Current rows that match some Pad No, so no amount is counted twice, also
\* when a Pad No stands on several activity rows.
C28_ChemCountedOnce ==
    DenominatorBuilt =>
        LET cur     == df_current_raw.rows
            matched == MatchedCurrentRows
            avail   == FSum([j \in matched |-> ValOf(cur[j]["Chem Cost"])],
                            matched)
            counted == FSum([b \in DOMAIN df_den |-> df_den[b].ChemTotal],
                            DOMAIN df_den)
        IN  ~FGt0(FSub(counted, avail))

-----------------------------------------------------------------------------
(* The fallback dates against dates that cover the window *)

\* record i has neither date
BothDatesMissing(i) ==
    IsNA(ActivityRows[i]["Pad Start"]) /\ IsNA(ActivityRows[i]["Pad End"])

\* record i starts on or before the window start and ends on or after the
\* end of the window's last day
CoversWindow(i) ==
    LET st == ActivityRows[i]["Pad Start"]
        en == ActivityRows[i]["Pad End"]
    IN  /\ st.t = "ts" /\ en.t = "ts"
        /\ st.v <= window.ms /\ en.v >= window.me + DayTicks

\* C29: a record given the fallback dates and a record whose dates cover
\* the whole window get the same active_days, the number of days of the
\* window.
C29_FallbackEqualsFullWindow ==
    DenominatorBuilt =>
        \A i \in 1..Len(ActivityRows) :
            /\ BothDatesMissing(i) => ActiveDays(i) = DaysInWindow
            /\ CoversWindow(i) => ActiveDays(i) = DaysInWindow
            /\ \A j \in 1..Len(ActivityRows) :
                  (BothDatesMissing(i) /\ CoversWindow(j)) =>
                      ActiveDays(i) = ActiveDays(j)

====
